---- MODULE Spec2Model ----
(***************************************************************************)
(* card-parser: the PNG chunk scanner / injector (package png), its two    *)
(* processors and the card representation pipeline; the lorebook merger    *)
(* and the depth prompt extension of Content (package character).          *)
(*                                                                         *)
(* Bytes are naturals 0..255, byte slices are sequences.  Errors are       *)
(* strings, "nil" being Go's nil error.                                    *)
(***************************************************************************)
EXTENDS Integers, Sequences, FiniteSets, TLC

(***************************************************************************)
(* Bounds of the model                                                     *)
(***************************************************************************)
MaxChunks == 2   \* chunks that follow the IHDR chunk in a generated stream
MaxCut == 12     \* bytes removed from the end of a generated stream
MaxGets == 2     \* Get() calls on one processor
MaxUrls == 3     \* URLs handed to one FromURL call
MaxCalls == 3    \* append calls made on one BookMerger
MaxMarshals == 2 \* MarshalJSON calls made in a row on one Content

(***************************************************************************)
(* Binary layout constants (png_scanner.go)                                *)
(***************************************************************************)
headerSize == 8
ihdrSize == 25
fullIhdrSize == headerSize + ihdrSize
chunkLengthSize == 4
chunkTypeSize == 4
chunkCrcSize == 4
widthSize == 4
heightSize == 4
ihdrWidthOffset == headerSize + chunkLengthSize + chunkTypeSize
ihdrHeightOffset == headerSize + chunkLengthSize + chunkTypeSize + widthSize

pngHeader == <<137, 80, 78, 71, 13, 10, 26, 10>>
chunkTextTypeCode == 1950701684
chunkIENDTypeCode == 1229278788
charaKeyword == <<99, 104, 97, 114, 97, 0>>
ccv3Keyword == <<99, 99, 118, 51, 0>>
pngFooter == <<0, 0, 0, 0, 73, 69, 78, 68, 174, 66, 96, 130>>

RevisionV2 == 2
RevisionV3 == 3

keywords == [r \in {RevisionV2, RevisionV3} |->
               IF r = RevisionV2 THEN charaKeyword ELSE ccv3Keyword]
keywordsLength == [r \in {RevisionV2, RevisionV3} |-> Len(keywords[r])]

(***************************************************************************)
(* Byte helpers: encoding/binary big-endian, bytes.HasPrefix, io.ReadFull, *)
(* io.CopyN as the scanner uses them                                       *)
(***************************************************************************)
Pow2(n) == 2 ^ n

\* binary.BigEndian.Uint32
BigEndianUint32(bs) ==
    bs[1] * Pow2(24) + bs[2] * Pow2(16) + bs[3] * Pow2(8) + bs[4]

\* binary.Write(w, binary.BigEndian, uint32)
BigEndianPutUint32(n) ==
    << (n \div Pow2(24)) % 256, (n \div Pow2(16)) % 256,
       (n \div Pow2(8)) % 256, n % 256 >>

\* widthPNG, heightPNG (api.go)
widthPNG(bytes) ==
    BigEndianUint32(SubSeq(bytes, ihdrWidthOffset + 1,
                           ihdrWidthOffset + widthSize))

heightPNG(bytes) ==
    BigEndianUint32(SubSeq(bytes, ihdrHeightOffset + 1,
                           ihdrHeightOffset + heightSize))

\* bytes.HasPrefix
HasPrefix(s, prefix) ==
    /\ Len(s) >= Len(prefix)
    /\ SubSeq(s, 1, Len(prefix)) = prefix

\* the bytes of data after the first pos bytes
Rest(data, pos) == SubSeq(data, pos + 1, Len(data))

\* io.ReadFull of n bytes from a reader that has consumed pos bytes of data:
\* io.EOF only when no byte could be read, io.ErrUnexpectedEOF after a
\* partial read, and a read of 0 bytes always succeeds.
ReadFull(data, pos, n) ==
    LET avail == Len(data) - pos IN
    IF n = 0 THEN [err |-> "nil", n |-> 0]
    ELSE IF avail >= n THEN [err |-> "nil", n |-> n]
    ELSE IF avail = 0 THEN [err |-> "EOF", n |-> 0]
    ELSE [err |-> "ErrUnexpectedEOF", n |-> avail]

\* io.CopyN of n bytes: io.EOF whenever fewer than n bytes were copied
CopyN(data, pos, n) ==
    LET avail == Len(data) - pos IN
    IF avail >= n THEN [err |-> "nil", n |-> n]
    ELSE [err |-> "EOF", n |-> avail]

(***************************************************************************)
(* hash/crc32, IEEE polynomial, as streamCharaChunk uses it                *)
(***************************************************************************)
\* A 32-bit word is kept as two 16-bit halves [hi, lo].
RECURSIVE Xor(_, _, _)
Xor(a, b, bits) ==
    IF bits = 0 THEN 0
    ELSE ((a + b) % 2) + 2 * Xor(a \div 2, b \div 2, bits - 1)

\* the reversed IEEE polynomial 0xEDB88320
crcPolyHi == 60856
crcPolyLo == 33568

\* one bit of the bitwise CRC: shift right, xor the polynomial on carry
CrcShift1(c) ==
    LET hi == c.hi \div 2
        lo == (c.lo \div 2) + (c.hi % 2) * 32768
    IN IF c.lo % 2 = 1
       THEN [hi |-> Xor(hi, crcPolyHi, 16), lo |-> Xor(lo, crcPolyLo, 16)]
       ELSE [hi |-> hi, lo |-> lo]

RECURSIVE CrcShift(_, _)
CrcShift(c, k) == IF k = 0 THEN c ELSE CrcShift(CrcShift1(c), k - 1)

RECURSIVE CrcUpdate(_, _, _)
CrcUpdate(c, bs, i) ==
    IF i > Len(bs) THEN c
    ELSE LET n == CrcShift([c EXCEPT !.lo = Xor(c.lo, bs[i], 16)], 8)
         IN IF n.lo >= 0 THEN CrcUpdate(n, bs, i + 1) ELSE n

\* crc32.NewIEEE() ... Sum32(), written big-endian
Crc32IEEE(bs) ==
    LET c == CrcUpdate([hi |-> 65535, lo |-> 65535], bs, 1)
        hi == Xor(c.hi, 65535, 16)
        lo == Xor(c.lo, 65535, 16)
    IN << hi \div 256, hi % 256, lo \div 256, lo % 256 >>

(***************************************************************************)
(* Cards (card.go, image.go)                                               *)
(***************************************************************************)
NoCard == [nil |-> TRUE]

\* RawCard{pngData{Header, Body}, RawCharaData, Revision}
RawCard(h, b, d, r) ==
    [Header |-> h, Body |-> b, RawCharaData |-> d, Revision |-> r]

(***************************************************************************)
(* Chunk selection policy (api.go)                                         *)
(***************************************************************************)
\* isLarger with a strict comparison
isLargerStrict(rawCard, chunk, revision) ==
    Len(chunk) - keywordsLength[revision] > Len(rawCard.RawCharaData)

isLarger(rawCard, chunk, revision) ==
    Len(chunk) - keywordsLength[revision] >= Len(rawCard.RawCharaData)

\* isHigherVersion with a strict comparison
isHigherVersionStrict(rawCard, chunk, revision) ==
    revision > rawCard.Revision

isHigherVersion(rawCard, chunk, revision) ==
    revision >= rawCard.Revision

First == [deepScan |-> FALSE, criteria |-> "isLarger"]
LastVersion == [deepScan |-> TRUE, criteria |-> "isHigherVersion"]
LastLongest == [deepScan |-> TRUE, criteria |-> "isLarger"]
DefaultScanMode == First
ScanModes == {First, LastVersion, LastLongest}

\* p.scanMode.criteria(p.rawCard, p.chunkBuffer, revision)
criteria(mode, rawCard, chunk, revision) ==
    IF mode.criteria = "isLarger" THEN isLarger(rawCard, chunk, revision)
    ELSE isHigherVersion(rawCard, chunk, revision)

(***************************************************************************)
(* Scanning processor (png_scanner.go)                                     *)
(*                                                                         *)
(* A scan state st is [pos, bodyBuffer, rawCard]: the bytes of the reader  *)
(* consumed so far, the Body accumulator and the card being built.         *)
(***************************************************************************)
\* isCharaChunk taking every non-empty text chunk for a chara chunk
isCharaChunkAnyText(chunkData) ==
    IF Len(chunkData) = 0 THEN [revision |-> RevisionV2, isChara |-> FALSE]
    ELSE IF HasPrefix(chunkData, keywords[RevisionV3])
         THEN [revision |-> RevisionV3, isChara |-> TRUE]
    ELSE [revision |-> RevisionV2, isChara |-> TRUE]

\* isCharaChunk: the two keywords are not prefixes of one another, so the
\* iteration order of the keywords map does not matter.
isCharaChunk(chunkData) ==
    IF Len(chunkData) = 0 THEN [revision |-> RevisionV2, isChara |-> FALSE]
    ELSE IF HasPrefix(chunkData, keywords[RevisionV2])
         THEN [revision |-> RevisionV2, isChara |-> TRUE]
    ELSE IF HasPrefix(chunkData, keywords[RevisionV3])
         THEN [revision |-> RevisionV3, isChara |-> TRUE]
    ELSE [revision |-> RevisionV2, isChara |-> FALSE]

\* streamCopyChunk that reads the CRC but does not copy it into Body
streamCopyChunkDropCrc(data, st, length, typeCode) ==
    LET c == CopyN(data, st.pos, length + 4)
        body == st.bodyBuffer \o BigEndianPutUint32(length)
                    \o BigEndianPutUint32(typeCode)
                    \o SubSeq(data, st.pos + 1,
                              st.pos + (IF c.n < length THEN c.n ELSE length))
    IN [st |-> [st EXCEPT !.pos = st.pos + c.n, !.bodyBuffer = body],
        err |-> c.err]

\* streamCopyChunk, entered with the 8 header bytes consumed
streamCopyChunk(data, st, length, typeCode) ==
    LET c == CopyN(data, st.pos, length + 4)
        body == st.bodyBuffer \o BigEndianPutUint32(length)
                    \o BigEndianPutUint32(typeCode)
                    \o SubSeq(data, st.pos + 1, st.pos + c.n)
    IN [st |-> [st EXCEPT !.pos = st.pos + c.n, !.bodyBuffer = body],
        err |-> c.err]

\* a tEXt branch that keeps every text chunk in Body like any other chunk
processTextChunkKept(data, st, length, mode) ==
    streamCopyChunk(data, st, length, chunkTextTypeCode)

\* a tEXt branch that never ends the scan early
processTextChunkNoStop(data, st, length, mode) ==
    LET rd == ReadFull(data, st.pos, length)
        p1 == st.pos + rd.n
        crc == CopyN(data, p1, chunkCrcSize)
        p2 == p1 + crc.n
        chunkBuffer == SubSeq(data, st.pos + 1, p1)
        ic == isCharaChunk(chunkBuffer)
        accepted == criteria(mode, st.rawCard, chunkBuffer, ic.revision)
        card == IF accepted
                THEN [st.rawCard EXCEPT
                        !.Revision = ic.revision,
                        !.RawCharaData =
                            Rest(chunkBuffer, keywordsLength[ic.revision])]
                ELSE st.rawCard
    IN IF rd.err # "nil" THEN [st |-> [st EXCEPT !.pos = p1], err |-> rd.err]
       ELSE IF crc.err # "nil"
            THEN [st |-> [st EXCEPT !.pos = p2], err |-> crc.err]
       ELSE IF ~ic.isChara
            THEN [st |-> [st EXCEPT !.pos = p2], err |-> "nil"]
       ELSE [st |-> [st EXCEPT !.pos = p2, !.rawCard = card], err |-> "nil"]

\* the tEXt branch of processChunk, entered with the 8 header bytes consumed
processTextChunk(data, st, length, mode) ==
    LET rd == ReadFull(data, st.pos, length)
        p1 == st.pos + rd.n
        crc == CopyN(data, p1, chunkCrcSize)
        p2 == p1 + crc.n
        chunkBuffer == SubSeq(data, st.pos + 1, p1)
        ic == isCharaChunk(chunkBuffer)
        accepted == criteria(mode, st.rawCard, chunkBuffer, ic.revision)
        card == IF accepted
                THEN [st.rawCard EXCEPT
                        !.Revision = ic.revision,
                        !.RawCharaData =
                            Rest(chunkBuffer, keywordsLength[ic.revision])]
                ELSE st.rawCard
    IN IF rd.err # "nil" THEN [st |-> [st EXCEPT !.pos = p1], err |-> rd.err]
       ELSE IF crc.err # "nil"
            THEN [st |-> [st EXCEPT !.pos = p2], err |-> crc.err]
       ELSE IF ~ic.isChara
            THEN [st |-> [st EXCEPT !.pos = p2], err |-> "nil"]
       ELSE [st |-> [st EXCEPT !.pos = p2, !.rawCard = card],
             err |-> IF ~mode.deepScan /\ Len(card.RawCharaData) > 0
                     THEN "EOF" ELSE "nil"]

\* processChunk: one chunk, or an error ("EOF" is io.EOF)
processChunk(data, st, mode) ==
    LET rl == ReadFull(data, st.pos, chunkLengthSize)
        p1 == st.pos + rl.n
        rt == ReadFull(data, p1, chunkTypeSize)
        p2 == p1 + rt.n
        length == BigEndianUint32(SubSeq(data, st.pos + 1, p1))
        typeCode == BigEndianUint32(SubSeq(data, p1 + 1, p2))
        st2 == [st EXCEPT !.pos = p2]
    IN IF rl.err # "nil" THEN [st |-> [st EXCEPT !.pos = p1], err |-> rl.err]
       ELSE IF rt.err # "nil" THEN [st |-> st2, err |-> rt.err]
       ELSE IF typeCode # chunkTextTypeCode
            THEN streamCopyChunk(data, st2, length, typeCode)
       ELSE processTextChunk(data, st2, length, mode)

\* the chunk loop of Get: [card, err, pos, bodyBuffer, rawCard] at return
RECURSIVE scanLoop(_, _, _)
scanLoop(data, st, mode) ==
    LET r == processChunk(data, st, mode) IN
    IF r.err = "EOF"
    THEN LET body == r.st.bodyBuffer \o Rest(data, r.st.pos)
             card == [r.st.rawCard EXCEPT !.Body = body]
         IN [card |-> card, err |-> "nil", pos |-> Len(data),
             bodyBuffer |-> body, rawCard |-> card]
    ELSE IF r.err # "nil"
    THEN [card |-> NoCard, err |-> r.err, pos |-> r.st.pos,
          bodyBuffer |-> r.st.bodyBuffer, rawCard |-> r.st.rawCard]
    ELSE scanLoop(data, r.st, mode)

\* scanningProcessor.Get on a processor without a stored error
scanGet(hdr, data, pos, mode) ==
    scanLoop(data,
             [pos |-> pos, bodyBuffer |-> <<>>,
              rawCard |-> RawCard(hdr, <<>>, <<>>, 0)],
             mode)

(***************************************************************************)
(* Chunk injection (card.go)                                               *)
(***************************************************************************)
\* streamCharaChunk writing the V2 keyword for every revision
streamCharaChunkAlwaysV2(rc, revision) ==
    IF Len(rc.RawCharaData) = 0 THEN <<>>
    ELSE LET keyword == keywords[RevisionV2]
             hashed == BigEndianPutUint32(chunkTextTypeCode)
                           \o keyword \o rc.RawCharaData
         IN BigEndianPutUint32(Len(keyword) + Len(rc.RawCharaData))
                \o hashed \o Crc32IEEE(hashed)

\* streamCharaChunk writing nothing for a revision without a keyword
streamCharaChunkNoFallback(rc, revision) ==
    IF Len(rc.RawCharaData) = 0 \/ revision \notin DOMAIN keywords THEN <<>>
    ELSE LET keyword == keywords[revision]
             hashed == BigEndianPutUint32(chunkTextTypeCode)
                           \o keyword \o rc.RawCharaData
         IN BigEndianPutUint32(Len(keyword) + Len(rc.RawCharaData))
                \o hashed \o Crc32IEEE(hashed)

\* streamCharaChunk without the early return on empty RawCharaData
streamCharaChunkEvenEmpty(rc, revision) ==
    LET keyword == IF revision \in DOMAIN keywords
                   THEN keywords[revision] ELSE keywords[RevisionV2]
        hashed == BigEndianPutUint32(chunkTextTypeCode)
                      \o keyword \o rc.RawCharaData
    IN BigEndianPutUint32(Len(keyword) + Len(rc.RawCharaData))
           \o hashed \o Crc32IEEE(hashed)

\* streamCharaChunk hashing the length field too
streamCharaChunkCrcOverLength(rc, revision) ==
    IF Len(rc.RawCharaData) = 0 THEN <<>>
    ELSE LET keyword == IF revision \in DOMAIN keywords
                        THEN keywords[revision] ELSE keywords[RevisionV2]
             chunkDataLen == Len(keyword) + Len(rc.RawCharaData)
             written == BigEndianPutUint32(chunkDataLen)
                            \o BigEndianPutUint32(chunkTextTypeCode)
                            \o keyword \o rc.RawCharaData
         IN written \o Crc32IEEE(written)

\* streamCharaChunk: the bytes written for the chara chunk
streamCharaChunk(rc, revision) ==
    IF Len(rc.RawCharaData) = 0 THEN <<>>
    ELSE LET keyword == IF revision \in DOMAIN keywords
                        THEN keywords[revision] ELSE keywords[RevisionV2]
             chunkDataLen == Len(keyword) + Len(rc.RawCharaData)
             hashed == BigEndianPutUint32(chunkTextTypeCode)
                           \o keyword \o rc.RawCharaData
         IN BigEndianPutUint32(chunkDataLen) \o hashed
                \o Crc32IEEE(hashed)

\* ToImage that does not write the header
ToImageNoHeader(rc) == streamCharaChunk(rc, rc.Revision) \o rc.Body

\* ToImage / ToBytes into an in-memory buffer (no write error)
ToImage(rc) == rc.Header \o streamCharaChunk(rc, rc.Revision) \o rc.Body

(***************************************************************************)
(* Entry point and converter processor (api.go, converter)                 *)
(***************************************************************************)
RECURSIVE Zeros(_)
Zeros(n) == IF n = 0 THEN <<>> ELSE <<0>> \o Zeros(n - 1)

\* FromImage without the io.ReadFull error check
FromImageSignatureOnly(data) ==
    LET rd == ReadFull(data, 0, fullIhdrSize)
        hdr == SubSeq(data, 1, rd.n) \o Zeros(fullIhdrSize - rd.n)
    IN IF SubSeq(hdr, 1, headerSize) # pngHeader
       THEN [kind |-> "converter", header |-> <<>>,
             reader |-> [data |-> hdr \o Rest(data, rd.n), pos |-> 0]]
       ELSE [kind |-> "scanning", header |-> hdr,
             reader |-> [data |-> data, pos |-> rd.n]]

\* FromImage: probe fullIhdrSize bytes; the converter is handed
\* io.MultiReader(bytes.NewReader(header), r), header being the whole
\* fullIhdrSize-byte probe buffer.
FromImage(data) ==
    LET rd == ReadFull(data, 0, fullIhdrSize)
        hdr == SubSeq(data, 1, rd.n) \o Zeros(fullIhdrSize - rd.n)
    IN IF rd.err # "nil" \/ SubSeq(hdr, 1, headerSize) # pngHeader
       THEN [kind |-> "converter", header |-> <<>>,
             reader |-> [data |-> hdr \o Rest(data, rd.n), pos |-> 0]]
       ELSE [kind |-> "scanning", header |-> hdr,
             reader |-> [data |-> data, pos |-> rd.n]]

\* the IHDR chunk of a 4x4 8-bit grayscale image
ihdrChunk == <<0, 0, 0, 13, 73, 72, 68, 82, 0, 0, 0, 4, 0, 0, 0, 4,
               8, 0, 0, 0, 0, 140, 154, 193, 162>>

\* what option.Encode writes for a decoded image: a PNG without text chunks
encodedPNG ==
    pngHeader \o ihdrChunk \o <<0, 0, 0, 1, 73, 68, 65, 84, 9, 1, 2, 3, 4>>
        \o pngFooter

noPngData == [Header |-> <<>>, Body |-> <<>>]

\* decode without the check of err and decoded at its start
decodeAlways(p, canDecode) ==
    LET data == Rest(p.reader.data, p.reader.pos)
        p1 == [p EXCEPT !.reader.pos = Len(p.reader.data),
                        !.reads = p.reads + 1]
    IN IF ~canDecode \/ Len(data) = 0 THEN [p1 EXCEPT !.err = "decodeError"]
       ELSE [p1 EXCEPT !.decoded = TRUE,
                       !.pngData =
                           [Header |-> SubSeq(encodedPNG, 1, fullIhdrSize),
                            Body |-> Rest(encodedPNG, fullIhdrSize)]]

\* converterProcessor.decode: the fields [reader, decoded, pngData, err]
\* after the call, and reads, the number of io.ReadAll calls made on the
\* reader so far; canDecode says whether imgconv.Decode or jpeg.Decode
\* accepts the bytes read, which no decoder does when there are none.
decode(p, canDecode) ==
    IF p.err # "nil" \/ p.decoded THEN p
    ELSE LET data == Rest(p.reader.data, p.reader.pos)
             p1 == [p EXCEPT !.reader.pos = Len(p.reader.data),
                             !.reads = p.reads + 1]
         IN
         IF ~canDecode \/ Len(data) = 0 THEN [p1 EXCEPT !.err = "decodeError"]
         ELSE [p1 EXCEPT !.decoded = TRUE,
                         !.pngData =
                             [Header |-> SubSeq(encodedPNG, 1, fullIhdrSize),
                              Body |-> Rest(encodedPNG, fullIhdrSize)]]

(***************************************************************************)
(* Input streams                                                           *)
(***************************************************************************)
Chunk(typeCode, content, crc) ==
    BigEndianPutUint32(Len(content)) \o BigEndianPutUint32(typeCode)
        \o content \o crc

\* 'IDAT'
idatTypeCode == BigEndianUint32(<<73, 68, 65, 84>>)

\* the keyword-stripped payloads carried by the generated chara chunks
PayloadsV2 == {<<>>, <<65>>, <<66, 66>>}
PayloadsV3 == {<<>>, <<67>>, <<68, 68>>}

\* [typeCode, content]: the chunks a generated stream is made of
ChunkPool ==
    {[typeCode |-> idatTypeCode, content |-> <<7>>],
     [typeCode |-> chunkIENDTypeCode, content |-> <<>>],
     [typeCode |-> chunkTextTypeCode, content |-> <<>>],
     [typeCode |-> chunkTextTypeCode, content |-> <<88, 0, 89>>]}
    \cup {[typeCode |-> chunkTextTypeCode, content |-> charaKeyword \o d] :
            d \in PayloadsV2}
    \cup {[typeCode |-> chunkTextTypeCode, content |-> ccv3Keyword \o d] :
            d \in PayloadsV3}

\* the CRC bytes of a generated chunk (the scanner does not verify them)
ChunkCrc(c) == IF c.typeCode = chunkIENDTypeCode THEN <<174, 66, 96, 130>>
               ELSE <<1, 2, 3, 4>>

ChunkSeqs == UNION {[1..n -> ChunkPool] : n \in 0..MaxChunks}

RECURSIVE EncodeChunks(_, _)
EncodeChunks(cs, i) ==
    IF i > Len(cs) THEN <<>>
    ELSE Chunk(cs[i].typeCode, cs[i].content, ChunkCrc(cs[i]))
             \o EncodeChunks(cs, i + 1)

Min(a, b) == IF a < b THEN a ELSE b

\* a PNG stream: signature, IHDR, chunks, with cut bytes missing at the end
PngStream(cs, cut) ==
    LET tail == EncodeChunks(cs, 1)
    IN pngHeader \o ihdrChunk \o SubSeq(tail, 1, Len(tail) - Min(cut, Len(tail)))

PngInputs == {PngStream(cs, cut) : cs \in ChunkSeqs, cut \in 0..MaxCut}

\* a JPEG-like stream, and streams shorter than the probe
jpgBytes == <<255, 216, 255, 224>> \o Zeros(fullIhdrSize) \o <<255, 217>>
OtherInputs == {jpgBytes, SubSeq(jpgBytes, 1, 20), pngHeader,
                pngHeader \o SubSeq(ihdrChunk, 1, 24), <<>>}

(***************************************************************************)
(* Structured record (character package) and the card pipeline (card.go)   *)
(*                                                                         *)
(* A JSON payload is <<>> (no bytes) or a one-element sequence holding the *)
(* document: [valid |-> FALSE] for bytes that do not parse, otherwise the  *)
(* fields the Sheet codec reads and writes.                                *)
(***************************************************************************)
SpecV2 == "chara_card_v2"
SpecV3 == "chara_card_v3"
V2 == "2.0"
V3 == "3.0"

Stamps == [r \in {RevisionV2, RevisionV3} |->
             IF r = RevisionV2
             THEN [Spec |-> SpecV2, Version |-> V2, Revision |-> RevisionV2]
             ELSE [Spec |-> SpecV3, Version |-> V3, Revision |-> RevisionV3]]

\* Stamps[revision], the zero Stamp when the map has no such key
StampOf(revision) ==
    IF revision \in DOMAIN Stamps THEN Stamps[revision]
    ELSE [Spec |-> "", Version |-> "", Revision |-> 0]

\* Sheet.SetRevision
SetRevision(sheet, revision) ==
    [sheet EXCEPT !.Revision = revision,
                  !.Spec = StampOf(revision).Spec,
                  !.Version = StampOf(revision).Version]

\* character.DefaultSheet
DefaultSheet(revision) ==
    SetRevision([Spec |-> "", Version |-> "", Revision |-> 0, Name |-> ""],
                revision)

\* Sheet.MarshalJSON through Sheet.ToBytes
SheetToBytes(sheet) ==
    << [valid |-> TRUE, spec |-> sheet.Spec, version |-> sheet.Version,
        name |-> sheet.Name] >>

\* character.FromBytes / Sheet.UnmarshalJSON
SheetFromBytes(b) ==
    LET doc == b[1] IN
    IF ~doc.valid THEN [sheet |-> NoCard, err |-> "jsonError"]
    ELSE [sheet |-> SetRevision(
                      [Spec |-> "", Version |-> "", Revision |-> 0,
                       Name |-> doc.name],
                      IF doc.spec = SpecV3 \/ doc.version = V3
                      THEN RevisionV3 ELSE RevisionV2),
          err |-> "nil"]

\* ToCharacter handing empty RawJsonData to the JSON decoder, which rejects
\* an empty document
ToCharacterNoDefault(c) ==
    LET r == IF Len(c.RawJsonData) = 0
             THEN [sheet |-> NoCard, err |-> "jsonError"]
             ELSE SheetFromBytes(c.RawJsonData)
    IN IF r.err # "nil" THEN [card |-> NoCard, err |-> r.err]
       ELSE [card |-> [pngData |-> c.pngData,
                       Sheet |-> [r.sheet EXCEPT
                                    !.Revision = c.Revision,
                                    !.Spec = StampOf(c.Revision).Spec,
                                    !.Version = StampOf(c.Revision).Version]],
             err |-> "nil"]

\* RawJsonCard.ToCharacter: [card, err], card being [pngData, Sheet]
ToCharacter(c) ==
    IF Len(c.RawJsonData) = 0
    THEN [card |-> [pngData |-> c.pngData,
                    Sheet |-> DefaultSheet(RevisionV2)],
          err |-> "nil"]
    ELSE LET r == SheetFromBytes(c.RawJsonData) IN
         IF r.err # "nil" THEN [card |-> NoCard, err |-> r.err]
         ELSE [card |-> [pngData |-> c.pngData,
                         Sheet |-> [r.sheet EXCEPT
                                      !.Revision = c.Revision,
                                      !.Spec = StampOf(c.Revision).Spec,
                                      !.Version = StampOf(c.Revision).Version]],
               err |-> "nil"]

\* CharacterCard.ToRawJson: [card, err], card being a RawJsonCard
CharacterToRawJson(c) ==
    IF c.Sheet = NoCard
    THEN [card |-> [pngData |-> c.pngData, RawJsonData |-> <<>>,
                    Revision |-> 0],
          err |-> "nil"]
    ELSE [card |-> [pngData |-> c.pngData,
                    RawJsonData |-> SheetToBytes(c.Sheet),
                    Revision |-> c.Sheet.Revision],
          err |-> "nil"]

\* base64.StdEncoding.  A base64 text is <<>> (no bytes) or a one-element
\* sequence holding the text: [valid |-> FALSE] for bytes that the decoder
\* rejects, otherwise the bytes the text decodes to.
Base64Encode(data) ==
    IF Len(data) = 0 THEN <<>> ELSE << [valid |-> TRUE, data |-> data] >>

Base64Decode(text) ==
    IF Len(text) = 0 THEN [data |-> <<>>, err |-> "nil"]
    ELSE IF ~text[1].valid THEN [data |-> <<>>, err |-> "base64Error"]
    ELSE [data |-> text[1].data, err |-> "nil"]

\* RawCard.ToRawJson: [card, err], card being a RawJsonCard
ToRawJson(c) ==
    LET rawJsonCard == [pngData |-> [Header |-> c.Header, Body |-> c.Body],
                        RawJsonData |-> <<>>,
                        Revision |-> c.Revision]
        r == Base64Decode(c.RawCharaData)
    IN IF Len(c.RawCharaData) = 0 THEN [card |-> rawJsonCard, err |-> "nil"]
       ELSE IF r.err # "nil" THEN [card |-> NoCard, err |-> r.err]
       ELSE [card |-> [rawJsonCard EXCEPT !.RawJsonData = r.data],
             err |-> "nil"]

\* RawJsonCard.ToRaw: a RawCard
ToRaw(c) ==
    RawCard(c.pngData.Header, c.pngData.Body,
            IF Len(c.RawJsonData) = 0 THEN <<>>
            ELSE Base64Encode(c.RawJsonData),
            c.Revision)

\* RawCard.Decode: [card, err], card being a CharacterCard
Decode(c) ==
    LET r == ToRawJson(c) IN
    IF r.err # "nil" THEN [card |-> NoCard, err |-> r.err]
    ELSE ToCharacter(r.card)

\* CharacterCard.Encode: [card, err], card being a RawCard
Encode(c) ==
    LET r == CharacterToRawJson(c) IN
    IF r.err # "nil" THEN [card |-> NoCard, err |-> r.err]
    ELSE [card |-> ToRaw(r.card), err |-> "nil"]

(***************************************************************************)
(* Lorebook merger (character package)                                     *)
(*                                                                         *)
(* A string is a sequence of one-character strings.  A *BookEntry or *Book *)
(* is an address: its position in the sequence heap (entries) or books,    *)
(* 0 being the nil pointer.  The merger's operations work on               *)
(* [bm, heap, books].                                                      *)
(***************************************************************************)
IsSpace(c) == c \in {" ", "\t", "\n"}

\* strings.TrimSpace
RECURSIVE TrimLeft(_)
TrimLeft(str) ==
    IF Len(str) = 0 THEN str
    ELSE IF IsSpace(Head(str)) THEN TrimLeft(Tail(str))
    ELSE str

RECURSIVE TrimRight(_)
TrimRight(str) ==
    IF Len(str) = 0 THEN str
    ELSE IF IsSpace(str[Len(str)]) THEN TrimRight(SubSeq(str, 1, Len(str) - 1))
    ELSE str

TrimSpace(str) == TrimRight(TrimLeft(str))

\* stringsx.IsBlank: empty, or white space only
IsBlank(str) == \A i \in 1..Len(str) : IsSpace(str[i])

RECURSIVE Dashes(_)
Dashes(n) == IF n = 0 THEN <<>> ELSE <<"-">> \o Dashes(n - 1)

BookNameSeparator == <<" ", "-", "-", " ">>
BookDescriptionSeparator == <<"\n">> \o Dashes(22) \o <<"\n">>

\* property.Union{}: no ID; property.Union{IntValue: ptr.Of(n)} is <<n>>
NoID == <<>>

\* character.DefaultBookEntry, with the fields the merger reads or writes
DefaultBookEntry ==
    [ID |-> NoID, Keys |-> <<>>, Name |-> <<>>, Comment |-> <<>>,
     Content |-> <<>>]

\* character.FilledBookEntry
FilledBookEntry(entryName, entryDescription) ==
    [DefaultBookEntry EXCEPT !.Keys = <<entryName>>,
                             !.Name = entryName,
                             !.Comment = entryName,
                             !.Content = entryDescription]

\* BookEntry.MirrorNameAndComment
MirrorNameAndComment(e) ==
    LET nameIsBlank == IsBlank(e.Name)
        commentIsBlank == IsBlank(e.Comment)
    IN IF nameIsBlank /\ ~commentIsBlank THEN [e EXCEPT !.Name = e.Comment]
       ELSE IF ~nameIsBlank /\ commentIsBlank
            THEN [e EXCEPT !.Comment = e.Name]
       ELSE e

\* a map[string]any with no key (nil, or empty)
NoExtensions == [k \in {} |-> ""]

\* character.DefaultBook: &Book{}
DefaultBook ==
    [Name |-> <<>>, Description |-> <<>>, ScanDepth |-> 0, TokenBudget |-> 0,
     RecursiveScanning |-> FALSE, Extensions |-> NoExtensions,
     Entries |-> <<>>]

\* newTokenAppender
newTokenAppender(separator) ==
    [stringBuilder |-> <<>>, separator |-> separator, tokenIndex |-> 0,
     nonEmptyTokenIndex |-> 0]

\* appendToken writing the separator before every token but the first
\* appended, blank ones counted
appendTokenCountingBlanks(t, token) ==
    LET parsedToken == TrimSpace(token)
        t1 == [t EXCEPT !.tokenIndex = t.tokenIndex + 1]
    IN IF IsBlank(parsedToken) THEN t1
       ELSE [t1 EXCEPT
               !.stringBuilder =
                   t.stringBuilder
                       \o (IF t.tokenIndex # 0 THEN t.separator ELSE <<>>)
                       \o parsedToken,
               !.nonEmptyTokenIndex = t.nonEmptyTokenIndex + 1]

\* tokenAppender.appendToken
appendToken(t, token) ==
    LET parsedToken == TrimSpace(token)
        t1 == [t EXCEPT !.tokenIndex = t.tokenIndex + 1]
    IN IF IsBlank(parsedToken) THEN t1
       ELSE [t1 EXCEPT
               !.stringBuilder =
                   t.stringBuilder
                       \o (IF t.nonEmptyTokenIndex # 0 THEN t.separator
                           ELSE <<>>)
                       \o parsedToken,
               !.nonEmptyTokenIndex = t.nonEmptyTokenIndex + 1]

\* tokenAppender.get
get(t) == t.stringBuilder

\* NewBookMerger
NewBookMerger ==
    [book |-> DefaultBook,
     nameBuilder |-> newTokenAppender(BookNameSeparator),
     descriptionBuilder |-> newTokenAppender(BookDescriptionSeparator),
     entryIndex |-> 0]

\* AppendProperties that takes the appended values over
AppendPropertiesLastWins(st, scanDepth, tokenBudget, recursiveScanning) ==
    [st EXCEPT !.bm.book.ScanDepth = scanDepth,
               !.bm.book.TokenBudget = tokenBudget,
               !.bm.book.RecursiveScanning = recursiveScanning]

\* BookMerger.AppendProperties
AppendProperties(st, scanDepth, tokenBudget, recursiveScanning) ==
    [st EXCEPT
       !.bm.book.ScanDepth = IF @ >= scanDepth THEN @ ELSE scanDepth,
       !.bm.book.TokenBudget = IF @ >= tokenBudget THEN @ ELSE tokenBudget,
       !.bm.book.RecursiveScanning = @ \/ recursiveScanning]

\* BookMerger.AppendNameAndDescription
AppendNameAndDescription(st, name, description) ==
    [st EXCEPT
       !.bm.nameBuilder = appendToken(@, name),
       !.bm.descriptionBuilder = appendToken(@, description)]

\* BookMerger.AppendEntry: the entry at address a is changed in place
AppendEntry(st, a) ==
    [st EXCEPT
       !.heap[a] = [MirrorNameAndComment(@) EXCEPT
                      !.ID = <<st.bm.entryIndex>>],
       !.bm.book.Entries = Append(@, a),
       !.bm.entryIndex = @ + 1]

\* BookMerger.AppendEntries
RECURSIVE AppendEntries(_, _)
AppendEntries(st, entries) ==
    IF Len(entries) = 0 THEN st
    ELSE AppendEntries(AppendEntry(st, Head(entries)), Tail(entries))

\* BookMerger.AppendMapExtensions: a key already held keeps its value
AppendMapExtensions(st, extensions) ==
    IF DOMAIN extensions = {} THEN st
    ELSE [st EXCEPT
            !.bm.book.Extensions =
                [k \in DOMAIN @ \cup DOMAIN extensions |->
                    IF k \in DOMAIN @ THEN @[k] ELSE extensions[k]]]

\* BookMerger.AppendBook on the book at address b (0: nil); a book without
\* entries is given one new entry made of its name and description, and
\* loses its description
AppendBook(st, b) ==
    IF b = 0 THEN st
    ELSE LET st1 == IF Len(st.books[b].Entries) = 0
                    THEN [st EXCEPT
                            !.heap = Append(@, FilledBookEntry(
                                                 st.books[b].Name,
                                                 st.books[b].Description)),
                            !.books[b].Entries = <<Len(st.heap) + 1>>,
                            !.books[b].Description = <<>>]
                    ELSE st
             book == st1.books[b]
         IN AppendEntries(
                AppendMapExtensions(
                    AppendNameAndDescription(
                        AppendProperties(st1, book.ScanDepth,
                                         book.TokenBudget,
                                         book.RecursiveScanning),
                        book.Name, book.Description),
                    book.Extensions),
                book.Entries)

\* BookMerger.Build: [nil, bm]; the book returned is bm.book
Build(m) ==
    IF Len(m.book.Entries) = 0 THEN [nil |-> TRUE, bm |-> m]
    ELSE [nil |-> FALSE,
          bm |-> [m EXCEPT
                    !.book.Name = TrimSpace(get(m.nameBuilder)),
                    !.book.Description =
                        TrimSpace(get(m.descriptionBuilder))]]

(***************************************************************************)
(* Content and its depth prompt extension (character/content.go)           *)
(*                                                                         *)
(* A value held in a map[string]any is [kind |-> "string", v |-> str],     *)
(* [kind |-> "int", v |-> n] or a map, [kind |-> "map", isNil, m], m being *)
(* the function from keys to values.  Arrays and null are not among the    *)
(* modelled values.  A Content is [Name, DepthPrompt, Extensions].         *)
(***************************************************************************)
DepthPromptKey == "depth_prompt"
DepthPromptPromptKey == "prompt"
DepthPromptDepthKey == "depth"
DefaultDepth == 4

StringValue(str) == [kind |-> "string", v |-> str]
IntValue(n) == [kind |-> "int", v |-> n]
NoKeys == [k \in {} |-> StringValue(<<>>)]
MapValue(m) == [kind |-> "map", isNil |-> FALSE, m |-> m]
NilMap == [kind |-> "map", isNil |-> TRUE, m |-> NoKeys]

\* delete(m, key)
Delete(m, key) == [k \in DOMAIN m \ {key} |-> m[k]]

\* m[key] = value
Put(m, key, value) ==
    [k \in DOMAIN m \cup {key} |-> IF k = key THEN value ELSE m[k]]

\* the zero Content
ZeroContent ==
    [Name |-> <<>>, DepthPrompt |-> [Prompt |-> <<>>, Depth |-> 0],
     Extensions |-> NilMap]

\* Content.insertDepthPrompt: [c, depthMap]; the map returned is nil
\* (depthMap FALSE) or the one now held at c.Extensions[DepthPromptKey]
insertDepthPrompt(c) ==
    IF IsBlank(c.DepthPrompt.Prompt) THEN [c |-> c, depthMap |-> FALSE]
    ELSE LET ext == c.Extensions.m
             ok == /\ DepthPromptKey \in DOMAIN ext
                   /\ ext[DepthPromptKey].kind = "map"
             depthMap == IF ok THEN ext[DepthPromptKey].m ELSE NoKeys
             filled == Put(Put(depthMap, DepthPromptPromptKey,
                               StringValue(c.DepthPrompt.Prompt)),
                           DepthPromptDepthKey, IntValue(c.DepthPrompt.Depth))
         IN [c |-> [c EXCEPT !.Extensions =
                        MapValue(Put(ext, DepthPromptKey, MapValue(filled)))],
             depthMap |-> TRUE]

\* purgeDepthPromptExtension that leaves Extensions alone when handed the
\* nil map
purgeDepthPromptExtensionUnlessNil(c, depthMap) ==
    IF ~depthMap THEN c
    ELSE LET ext == c.Extensions.m
             purged == Delete(Delete(ext[DepthPromptKey].m,
                                     DepthPromptPromptKey),
                              DepthPromptDepthKey)
             ext1 == IF DOMAIN purged = {} THEN Delete(ext, DepthPromptKey)
                     ELSE Put(ext, DepthPromptKey, MapValue(purged))
         IN [c EXCEPT !.Extensions =
                IF DOMAIN ext1 = {} THEN NilMap ELSE MapValue(ext1)]

\* Content.purgeDepthPromptExtension; depthMap says whether the map handed
\* over is the one at c.Extensions[DepthPromptKey] (TRUE) or nil (FALSE).
\* delete on a nil map does nothing and len of a nil map is 0.
purgeDepthPromptExtension(c, depthMap) ==
    LET ext == c.Extensions.m
        purged == IF depthMap
                  THEN Delete(Delete(ext[DepthPromptKey].m,
                                     DepthPromptPromptKey),
                              DepthPromptDepthKey)
                  ELSE NoKeys
        ext1 == IF DOMAIN purged = {} THEN Delete(ext, DepthPromptKey)
                ELSE Put(ext, DepthPromptKey, MapValue(purged))
    IN [c EXCEPT !.Extensions =
           IF DOMAIN ext1 = {} THEN NilMap
           ELSE [c.Extensions EXCEPT !.m = ext1]]

\* the JSON value of a Go value
RECURSIVE JsonOf(_)
JsonOf(value) ==
    IF value.kind = "string" THEN [t |-> "string", s |-> value.v]
    ELSE IF value.kind = "int" THEN [t |-> "number", n |-> value.v]
    ELSE [t |-> "object",
          members |-> [k \in DOMAIN value.m |-> JsonOf(value.m[k])]]

\* the Go value a JSON value decodes to in a map[string]any
RECURSIVE GoOf(_)
GoOf(json) ==
    IF json.t = "string" THEN StringValue(json.s)
    ELSE IF json.t = "number" THEN IntValue(json.n)
    ELSE MapValue([k \in DOMAIN json.members |-> GoOf(json.members[k])])

\* sonicx.Config.Marshal of (*contentAlias)(c): DepthPrompt is `json:"-"`,
\* a nil Extensions is left out (omitzero)
Marshal(c) ==
    IF c.Extensions.isNil
    THEN [name |-> c.Name, hasExtensions |-> FALSE,
          extensions |-> JsonOf(MapValue(NoKeys))]
    ELSE [name |-> c.Name, hasExtensions |-> TRUE,
          extensions |-> JsonOf(c.Extensions)]

\* Content.MarshalJSON: [c, json]; the deferred purge runs after Marshal
ContentMarshalJSON(c) ==
    LET ins == insertDepthPrompt(c) IN
    [c |-> purgeDepthPromptExtension(ins.c, ins.depthMap),
     json |-> Marshal(ins.c)]

\* cast.ToString of a value held under the prompt key
CastToString(value) ==
    IF value.kind = "string" THEN value.v
    ELSE IF value.kind = "int"
         THEN <<<<"0", "1", "2", "3", "4", "5", "6", "7", "8", "9">>[
                    value.v + 1]>>
    ELSE <<>>

\* Content.extractDepthPrompt
extractDepthPrompt(c) ==
    IF c.Extensions.isNil \/ DepthPromptKey \notin DOMAIN c.Extensions.m
    THEN c
    ELSE LET promptValue == c.Extensions.m[DepthPromptKey] IN
         IF promptValue.kind = "map"
         THEN LET m == promptValue.m
                  prompt == IF DepthPromptPromptKey \in DOMAIN m
                            THEN TrimSpace(CastToString(
                                               m[DepthPromptPromptKey]))
                            ELSE <<>>
                  depth == IF /\ DepthPromptDepthKey \in DOMAIN m
                              /\ m[DepthPromptDepthKey].kind = "int"
                           THEN m[DepthPromptDepthKey].v
                           ELSE DefaultDepth
                  c1 == IF IsBlank(prompt) THEN c
                        ELSE [c EXCEPT !.DepthPrompt =
                                 [Prompt |-> prompt, Depth |-> depth]]
              IN purgeDepthPromptExtension(c1, TRUE)
         ELSE [c EXCEPT
                 !.DepthPrompt = [Prompt |-> CastToString(promptValue),
                                  Depth |-> DefaultDepth],
                 !.Extensions.m = Delete(@, DepthPromptKey)]

\* Content.UnmarshalJSON into a zero Content
ContentUnmarshalJSON(json) ==
    extractDepthPrompt(
        [ZeroContent EXCEPT
           !.Name = json.name,
           !.Extensions = IF json.hasExtensions THEN GoOf(json.extensions)
                          ELSE NilMap])

(***************************************************************************)
(* State                                                                   *)
(***************************************************************************)
VARIABLES
    input,       \* the bytes handed to the constructor
    gen,         \* how input was made: [chunks, cut], chunks a sequence of
                 \* [typeCode, content], or NoCard for other inputs
    canDecode,   \* whether the image decoders accept the bytes they are given
    injected,    \* the RawCard whose ToBytes made input, or NoCard
    kind,        \* "scanning", "converter", or "none" before construction
    header,      \* scanningProcessor.header
    reader,      \* the processor's reader: [data, pos]
    hasSource,   \* the processor owns a byte source (reader / closer not nil)
    closed,      \* Close() has been called on the byte source
    scanMode,    \* scanningProcessor.scanMode
    bodyBuffer,  \* scanningProcessor.bodyBuffer
    rawCard,     \* scanningProcessor.rawCard
    err,         \* the processor's err field
    decoded,     \* converterProcessor.decoded
    pngData,     \* converterProcessor.pngData
    reads,       \* io.ReadAll calls the converter has made on its reader
    ret,         \* what the last Get() returned: [card, err, mode]
    getCalls,    \* number of Get() calls made
    panicked,    \* a call on the processor panicked
    fetch,       \* the FromURL call that makes the processor: [urls, next,
                 \* accessLog, fetchErr], or NoCard when there is none
    rc,          \* pipeline: the RawCard held by the caller, or NoCard
    rjc,         \* pipeline: the RawJsonCard held by the caller, or NoCard
    cc,          \* pipeline: the CharacterCard held by the caller, or NoCard
    perr,        \* pipeline: the error of the last transform
    lastOp,      \* pipeline: the last transform applied, with its argument
    bm,          \* merger: the BookMerger [book, nameBuilder,
                 \* descriptionBuilder, entryIndex]; book.Entries holds
                 \* addresses of heap
    heap,        \* merger: the BookEntry objects, by address
    books,       \* merger: the caller's Book objects, by address
    calls,       \* merger: the calls made on the merger, with their
                 \* arguments as they were at the call
    built,       \* merger: what the last Build() returned since the last
                 \* append: "none" (not called), "nil" or "book"
    sheetContent, \* content: the Content held by the caller
    contentBefore, \* content: content as it was before the last MarshalJSON
    jsonOut,     \* content: the JSON the last MarshalJSON returned
    jsonPrev,    \* content: the JSON the MarshalJSON before it returned
    marshals     \* content: MarshalJSON calls made in a row

procVars == <<input, gen, canDecode, injected, kind, header, reader,
              hasSource, closed, scanMode, bodyBuffer, rawCard, err, decoded,
              pngData, reads, ret, getCalls, panicked, fetch>>
pipeVars == <<rc, rjc, cc, perr, lastOp>>
mergeVars == <<bm, heap, books, calls, built>>
contentVars == <<sheetContent, contentBefore, jsonOut, jsonPrev, marshals>>
charVars == <<mergeVars, contentVars>>
vars == <<procVars, pipeVars, charVars>>

noRet == [card |-> NoCard, err |-> "nil", mode |-> DefaultScanMode]
noOp == [op |-> "none", arg |-> NoCard]

\* no JSON marshaled yet
noJson == [name |-> <<>>, hasExtensions |-> FALSE,
           extensions |-> JsonOf(MapValue(NoKeys))]

\* a new merger, no entry or book made by the caller
MergerIdle ==
    /\ bm = NewBookMerger
    /\ heap = <<>>
    /\ books = <<>>
    /\ calls = <<>>
    /\ built = "none"

\* a zero Content, never marshaled
ContentIdle ==
    /\ sheetContent = ZeroContent
    /\ contentBefore = ZeroContent
    /\ jsonOut = noJson
    /\ jsonPrev = noJson
    /\ marshals = 0

\* no pipeline in progress
PipeIdle ==
    /\ rc = NoCard
    /\ rjc = NoCard
    /\ cc = NoCard
    /\ perr = "nil"
    /\ lastOp = noOp

\* no processor constructed
ProcIdle ==
    /\ input = <<>>
    /\ gen = NoCard
    /\ canDecode = FALSE
    /\ injected = NoCard
    /\ fetch = NoCard
    /\ kind = "none"
    /\ header = <<>>
    /\ reader = [data |-> <<>>, pos |-> 0]
    /\ hasSource = FALSE
    /\ closed = FALSE
    /\ scanMode = DefaultScanMode
    /\ bodyBuffer = <<>>
    /\ rawCard = NoCard
    /\ err = "nil"
    /\ decoded = FALSE
    /\ pngData = noPngData
    /\ reads = 0
    /\ ret = noRet
    /\ getCalls = 0
    /\ panicked = FALSE

\* the processor FromImage(data) returns (FromBytes, FromFile on an open
\* file, FromURL on a response)
Constructed(data) ==
    LET p == FromImage(data) IN
    /\ input = data
    /\ kind = p.kind
    /\ header = p.header
    /\ reader = p.reader
    /\ hasSource = TRUE
    /\ closed = FALSE
    /\ scanMode = DefaultScanMode
    /\ bodyBuffer = <<>>
    /\ rawCard = NoCard
    /\ err = "nil"
    /\ decoded = FALSE
    /\ pngData = noPngData
    /\ reads = 0
    /\ ret = noRet
    /\ getCalls = 0
    /\ panicked = FALSE

\* &converterProcessor{err: err}: FromFile when os.Open fails, FromURL when
\* every URL fails
ConstructedInError ==
    /\ input = <<>>
    /\ kind = "converter"
    /\ header = <<>>
    /\ reader = [data |-> <<>>, pos |-> 0]
    /\ hasSource = FALSE
    /\ closed = FALSE
    /\ scanMode = DefaultScanMode
    /\ bodyBuffer = <<>>
    /\ rawCard = NoCard
    /\ err = "openError"
    /\ decoded = FALSE
    /\ pngData = noPngData
    /\ reads = 0
    /\ ret = noRet
    /\ getCalls = 0
    /\ panicked = FALSE

Init ==
    /\ PipeIdle
    /\ MergerIdle
    /\ ContentIdle
    /\ injected = NoCard
    /\ fetch = NoCard
    /\ \/ \E cs \in ChunkSeqs, cut \in 0..MaxCut :
             /\ gen = [chunks |-> cs, cut |-> cut]
             /\ canDecode = FALSE
             /\ Constructed(PngStream(cs, cut))
       \/ \E data \in OtherInputs, d \in BOOLEAN :
             /\ gen = NoCard
             /\ canDecode = d
             /\ Constructed(data)
       \/ /\ gen = NoCard
          /\ canDecode = FALSE
          /\ ConstructedInError

(***************************************************************************)
(* Processor operations                                                    *)
(***************************************************************************)
\* ScanMode / First / LastVersion / LastLongest: the converter ignores it
ScanMode(mode) ==
    /\ kind \in {"scanning", "converter"}
    /\ ~panicked
    /\ scanMode' = IF kind = "scanning" THEN mode ELSE scanMode
    /\ UNCHANGED <<input, gen, canDecode, injected, kind, header, reader,
                   hasSource, closed, bodyBuffer, rawCard, err, decoded,
                   pngData, reads, ret, getCalls, panicked, fetch,
                   pipeVars, charVars>>

\* scanningProcessor.Get
GetScanning ==
    /\ kind = "scanning"
    /\ closed' = TRUE
    /\ IF err # "nil"
       THEN /\ ret' = [card |-> NoCard, err |-> err, mode |-> scanMode]
            /\ UNCHANGED <<reader, bodyBuffer, rawCard>>
       ELSE LET r == scanGet(header, reader.data, reader.pos, scanMode) IN
            /\ ret' = [card |-> r.card, err |-> r.err, mode |-> scanMode]
            /\ reader' = [reader EXCEPT !.pos = r.pos]
            /\ bodyBuffer' = r.bodyBuffer
            /\ rawCard' = r.rawCard
    /\ UNCHANGED <<err, decoded, pngData, reads, panicked>>

\* the converter's decode() would call io.ReadAll on a nil reader: the
\* processor was made by &converterProcessor{err: nil}
nilReaderDecode == err = "nil" /\ ~decoded /\ ~hasSource

\* the converter's fields after p.decode()
decodeFields ==
    decode([reader |-> reader, decoded |-> decoded, pngData |-> pngData,
            err |-> err, reads |-> reads], canDecode)

\* converterProcessor.Get
GetConverter ==
    /\ kind = "converter"
    /\ IF nilReaderDecode
       THEN /\ panicked' = TRUE
            /\ UNCHANGED <<reader, decoded, pngData, err, reads, ret>>
       ELSE LET p == decodeFields IN
            /\ reader' = p.reader
            /\ decoded' = p.decoded
            /\ pngData' = p.pngData
            /\ err' = p.err
            /\ reads' = p.reads
            /\ ret' = IF p.err # "nil"
                      THEN [card |-> NoCard, err |-> p.err, mode |-> scanMode]
                      ELSE [card |-> RawCard(p.pngData.Header,
                                             p.pngData.Body, <<>>, 0),
                            err |-> "nil", mode |-> scanMode]
            /\ UNCHANGED panicked
    /\ UNCHANGED <<closed, bodyBuffer, rawCard>>

Get ==
    /\ ~panicked
    /\ getCalls < MaxGets
    /\ getCalls' = getCalls + 1
    /\ (GetScanning \/ GetConverter)
    /\ UNCHANGED <<input, gen, canDecode, injected, kind, header, hasSource,
                   scanMode, fetch, pipeVars, charVars>>

\* scanningProcessor.ImageSize: it changes nothing
ImageSizeScanning ==
    /\ kind = "scanning"
    /\ UNCHANGED <<reader, decoded, pngData, err, reads, panicked>>

\* converterProcessor.ImageSize
ImageSizeConverter ==
    /\ kind = "converter"
    /\ IF nilReaderDecode
       THEN /\ panicked' = TRUE
            /\ UNCHANGED <<reader, decoded, pngData, err, reads>>
       ELSE LET p == decodeFields IN
            /\ reader' = p.reader
            /\ decoded' = p.decoded
            /\ pngData' = p.pngData
            /\ err' = p.err
            /\ reads' = p.reads
            /\ UNCHANGED panicked

ImageSize ==
    /\ ~panicked
    /\ (ImageSizeScanning \/ ImageSizeConverter)
    /\ UNCHANGED <<input, gen, canDecode, injected, kind, header, hasSource,
                   closed, scanMode, bodyBuffer, rawCard, ret, getCalls,
                   fetch, pipeVars, charVars>>

\* what ImageSize() returns, in the state it leaves the processor in
ImageSizeResult ==
    IF err # "nil" THEN <<-1, -1>>
    ELSE IF kind = "scanning" THEN <<widthPNG(header), heightPNG(header)>>
    ELSE <<widthPNG(pngData.Header), heightPNG(pngData.Header)>>

\* Close: p.reader.Close() for the scanner, p.closer() for the converter,
\* whose closer is nil when it was constructed in error
Close ==
    /\ kind \in {"scanning", "converter"}
    /\ ~panicked
    /\ IF hasSource THEN closed' = TRUE /\ UNCHANGED panicked
       ELSE panicked' = TRUE /\ UNCHANGED closed
    /\ UNCHANGED <<input, gen, canDecode, injected, kind, header, reader,
                   hasSource, scanMode, bodyBuffer, rawCard, err, decoded,
                   pngData, reads, ret, getCalls, fetch, pipeVars, charVars>>

\* Err()
Err == err

Next ==
    \/ \E mode \in ScanModes : ScanMode(mode)
    \/ ImageSize
    \/ Get
    \/ Close

Spec == Init /\ [][Next]_vars

(***************************************************************************)
(* Re-serialization: a caller holds a card made of the image of an earlier *)
(* Get() and a payload of its own, and loads FromBytes(card.ToBytes())     *)
(***************************************************************************)
\* the streams of the earlier scans: whole ones, and ones that lost their
\* last byte
ScannedInputs == {PngStream(cs, cut) : cs \in ChunkSeqs, cut \in {0, 1}}

\* the [Header, Body] images that a successful Get() returns
ScannedImages ==
    {[Header |-> SubSeq(encodedPNG, 1, fullIhdrSize),
      Body |-> Rest(encodedPNG, fullIhdrSize)]}
    \cup
    {[Header |-> r.card.Header, Body |-> r.card.Body] :
        r \in {q \in {scanGet(SubSeq(data, 1, fullIhdrSize), data,
                              fullIhdrSize, mode) :
                         data \in ScannedInputs, mode \in ScanModes} :
                 q.err = "nil"}}

\* the payloads and revisions a caller sets on the card
CallerPayloads == {<<>>, <<65>>, <<66, 67>>}
CallerRevisions == {0, RevisionV2, RevisionV3, 100}

InitInject ==
    /\ PipeIdle
    /\ MergerIdle
    /\ ContentIdle
    /\ input = <<>>
    /\ gen = NoCard
    /\ canDecode = FALSE
    /\ \E img \in ScannedImages, d \in CallerPayloads, r \in CallerRevisions :
          injected = RawCard(img.Header, img.Body, d, r)
    /\ fetch = NoCard
    /\ kind = "none"
    /\ header = <<>>
    /\ reader = [data |-> <<>>, pos |-> 0]
    /\ hasSource = FALSE
    /\ closed = FALSE
    /\ scanMode = DefaultScanMode
    /\ bodyBuffer = <<>>
    /\ rawCard = NoCard
    /\ err = "nil"
    /\ decoded = FALSE
    /\ pngData = noPngData
    /\ reads = 0
    /\ ret = noRet
    /\ getCalls = 0
    /\ panicked = FALSE

\* FromBytes(bytes) with bytes, _ := injected.ToBytes()
Reload ==
    /\ kind = "none"
    /\ injected # NoCard
    /\ LET data == ToImage(injected)
           p == FromImage(data)
       IN /\ input' = data
          /\ kind' = p.kind
          /\ header' = p.header
          /\ reader' = p.reader
          /\ hasSource' = TRUE
    /\ UNCHANGED <<gen, canDecode, injected, closed, scanMode, bodyBuffer,
                   rawCard, err, decoded, pngData, reads, ret, getCalls,
                   panicked, fetch, pipeVars, charVars>>

NextInject ==
    \/ Reload
    \/ \E mode \in ScanModes : ScanMode(mode)
    \/ Get
    \/ Close

SpecInject == InitInject /\ [][NextInject]_vars

(***************************************************************************)
(* FromURL (api.go): the URLs are requested one loop iteration at a time;  *)
(* urls[i] is what the client returns for the i-th URL of the argument     *)
(* list, a response body or an error.                                      *)
(***************************************************************************)
\* the bodies of the responses: a PNG without payload, a PNG with a chara
\* chunk, a JPEG
UrlBodies ==
    {PngStream(<<>>, 0),
     PngStream(<< [typeCode |-> chunkTextTypeCode,
                   content |-> charaKeyword \o <<65>>] >>, 0),
     jpgBytes}

Responses ==
    {[err |-> "nil", body |-> b] : b \in UrlBodies}
    \cup {[err |-> e, body |-> <<>>] : e \in {"status500", "status404"}}

UrlLists == UNION {[1..n -> Responses] : n \in 0..MaxUrls}

\* a loop body that keeps the first error instead of the last
fromURLIterFirstErr(fetchErr, response) ==
    IF response.err = "nil" THEN [return |-> TRUE, fetchErr |-> fetchErr]
    ELSE [return |-> FALSE,
          fetchErr |-> IF fetchErr = "nil" THEN response.err ELSE fetchErr]

\* the loop body of FromURL, given the client's answer: whether FromURL
\* returns FromImage(response.Body), and fetchErr after the iteration
fromURLIter(fetchErr, response) ==
    IF response.err = "nil" THEN [return |-> TRUE, fetchErr |-> fetchErr]
    ELSE [return |-> FALSE, fetchErr |-> response.err]

InitURL ==
    /\ PipeIdle
    /\ MergerIdle
    /\ ContentIdle
    /\ input = <<>>
    /\ gen = NoCard
    /\ canDecode \in BOOLEAN
    /\ injected = NoCard
    /\ \E us \in UrlLists :
          fetch = [urls |-> us, next |-> 1, accessLog |-> <<>>,
                   fetchErr |-> "nil"]
    /\ kind = "none"
    /\ header = <<>>
    /\ reader = [data |-> <<>>, pos |-> 0]
    /\ hasSource = FALSE
    /\ closed = FALSE
    /\ scanMode = DefaultScanMode
    /\ bodyBuffer = <<>>
    /\ rawCard = NoCard
    /\ err = "nil"
    /\ decoded = FALSE
    /\ pngData = noPngData
    /\ reads = 0
    /\ ret = noRet
    /\ getCalls = 0
    /\ panicked = FALSE

\* one iteration of the loop of FromURL: request the next URL, and return
\* FromImage(response.Body) when the client reports no error
FetchURL ==
    /\ kind = "none"
    /\ fetch # NoCard
    /\ fetch.next <= Len(fetch.urls)
    /\ LET response == fetch.urls[fetch.next]
           it == fromURLIter(fetch.fetchErr, response)
           p == FromImage(response.body)
       IN /\ fetch' = [fetch EXCEPT !.next = fetch.next + 1,
                                    !.accessLog = Append(@, fetch.next),
                                    !.fetchErr = it.fetchErr]
          /\ IF it.return
             THEN /\ input' = response.body
                  /\ kind' = p.kind
                  /\ header' = p.header
                  /\ reader' = p.reader
                  /\ hasSource' = TRUE
             ELSE UNCHANGED <<input, kind, header, reader, hasSource>>
    /\ UNCHANGED <<gen, canDecode, injected, closed, scanMode, bodyBuffer,
                   rawCard, err, decoded, pngData, reads, ret, getCalls,
                   panicked, pipeVars, charVars>>

\* the loop of FromURL is over: return &converterProcessor{err: fetchErr}
FetchFailed ==
    /\ kind = "none"
    /\ fetch # NoCard
    /\ fetch.next > Len(fetch.urls)
    /\ kind' = "converter"
    /\ err' = fetch.fetchErr
    /\ UNCHANGED <<input, gen, canDecode, injected, header, reader, hasSource,
                   closed, scanMode, bodyBuffer, rawCard, decoded, pngData,
                   reads, ret, getCalls, panicked, fetch, pipeVars, charVars>>

NextURL ==
    \/ FetchURL
    \/ FetchFailed
    \/ \E mode \in ScanModes : ScanMode(mode)
    \/ ImageSize
    \/ Get
    \/ Close

SpecURL == InitURL /\ [][NextURL]_vars

(***************************************************************************)
(* The card pipeline on its own: the caller holds a card in one of its     *)
(* three representations and applies the transforms                        *)
(***************************************************************************)
JsonDocs ==
    {<<>>, << [valid |-> FALSE] >>}
    \cup {<< [valid |-> TRUE, spec |-> s, version |-> v, name |-> n] >> :
            s \in {SpecV2, SpecV3, ""}, v \in {V2, V3}, n \in {"A", "B"}}

\* the RawCharaData a caller may hold: none, bytes that are not base64, and
\* the base64 text of a JSON payload
Base64Texts ==
    {<<>>, << [valid |-> FALSE] >>} \cup {Base64Encode(j) : j \in JsonDocs}

cardImage == [Header |-> SubSeq(encodedPNG, 1, fullIhdrSize),
              Body |-> Rest(encodedPNG, fullIhdrSize)]

InitCard ==
    /\ ProcIdle
    /\ MergerIdle
    /\ ContentIdle
    /\ \/ \E t \in Base64Texts, r \in CallerRevisions :
             /\ rc = RawCard(cardImage.Header, cardImage.Body, t, r)
             /\ rjc = NoCard
             /\ cc = NoCard
       \/ \E j \in JsonDocs, r \in CallerRevisions :
             /\ rc = NoCard
             /\ rjc = [pngData |-> cardImage, RawJsonData |-> j,
                       Revision |-> r]
             /\ cc = NoCard
       \/ /\ rc = NoCard
          /\ rjc = NoCard
          /\ cc = [pngData |-> cardImage, Sheet |-> NoCard]
    /\ perr = "nil"
    /\ lastOp = noOp

\* rjc, err := rc.ToRawJson()
CallToRawJson ==
    /\ rc # NoCard
    /\ LET r == ToRawJson(rc) IN
          /\ rjc' = r.card
          /\ perr' = r.err
    /\ lastOp' = [op |-> "ToRawJson", arg |-> rc]
    /\ UNCHANGED <<rc, cc, procVars, charVars>>

\* cc, err := rjc.ToCharacter()
CallToCharacter ==
    /\ rjc # NoCard
    /\ LET r == ToCharacter(rjc) IN
          /\ cc' = r.card
          /\ perr' = r.err
    /\ lastOp' = [op |-> "ToCharacter", arg |-> rjc]
    /\ UNCHANGED <<rc, rjc, procVars, charVars>>

\* rjc, err := cc.ToRawJson()
CallCharacterToRawJson ==
    /\ cc # NoCard
    /\ LET r == CharacterToRawJson(cc) IN
          /\ rjc' = r.card
          /\ perr' = r.err
    /\ lastOp' = [op |-> "CharacterToRawJson", arg |-> cc]
    /\ UNCHANGED <<rc, cc, procVars, charVars>>

\* rc := rjc.ToRaw()
CallToRaw ==
    /\ rjc # NoCard
    /\ rc' = ToRaw(rjc)
    /\ perr' = "nil"
    /\ lastOp' = [op |-> "ToRaw", arg |-> rjc]
    /\ UNCHANGED <<rjc, cc, procVars, charVars>>

\* cc, err := rc.Decode()
CallDecode ==
    /\ rc # NoCard
    /\ LET r == Decode(rc) IN
          /\ cc' = r.card
          /\ perr' = r.err
    /\ lastOp' = [op |-> "Decode", arg |-> rc]
    /\ UNCHANGED <<rc, rjc, procVars, charVars>>

\* rc, err := cc.Encode()
CallEncode ==
    /\ cc # NoCard
    /\ LET r == Encode(cc) IN
          /\ rc' = r.card
          /\ perr' = r.err
    /\ lastOp' = [op |-> "Encode", arg |-> cc]
    /\ UNCHANGED <<rjc, cc, procVars, charVars>>

NextCard ==
    \/ CallToRawJson
    \/ CallToCharacter
    \/ CallCharacterToRawJson
    \/ CallToRaw
    \/ CallDecode
    \/ CallEncode

SpecCard == InitCard /\ [][NextCard]_vars

(***************************************************************************)
(* Merging lorebooks: a caller holding two entries and three books makes   *)
(* up to MaxCalls append calls on a new BookMerger, and calls Build        *)
(***************************************************************************)
\* the caller's entries: one with a name only, one with a comment only
CallerEntries ==
    << [DefaultBookEntry EXCEPT !.Name = <<"e">>, !.Content = <<"x">>],
       [DefaultBookEntry EXCEPT !.Comment = <<"c">>, !.Content = <<"y">>] >>

\* the caller's books: one with an entry, one without entries and with a
\* description, one with a blank name
CallerBooks ==
    << [DefaultBook EXCEPT !.Name = <<" ", "n", " ">>,
                           !.Description = <<"d">>,
                           !.ScanDepth = 2, !.TokenBudget = 1,
                           !.Extensions = [k \in {"k1"} |-> "v1"],
                           !.Entries = <<1>>],
       [DefaultBook EXCEPT !.Name = <<"m">>,
                           !.Description = <<" ", "f">>,
                           !.ScanDepth = 1, !.TokenBudget = 3,
                           !.RecursiveScanning = TRUE,
                           !.Extensions = [k \in {"k1", "k2"} |-> "v2"]],
       [DefaultBook EXCEPT !.Name = <<" ">>,
                           !.Entries = <<2>>] >>

EntryLists == {<<>>, <<1, 2>>}
PropertyArgs == {<<3, 0, FALSE>>, <<0, 2, TRUE>>, <<-1, -1, FALSE>>}
NameArgs == {<< <<"a">>, <<>> >>,
             << <<" ">>, <<" ", "g", " ">> >>,
             << <<"\t", "h">>, <<"i", "\n">> >>}
ExtensionArgs == {NoExtensions, [k \in {"k2", "k3"} |-> "v3"]}

InitMerger ==
    /\ ProcIdle
    /\ PipeIdle
    /\ ContentIdle
    /\ bm = NewBookMerger
    /\ heap = CallerEntries
    /\ books = CallerBooks
    /\ calls = <<>>
    /\ built = "none"

\* the record of a call in calls
Call(op, name, description, scanDepth, tokenBudget, recursiveScanning,
     entries, noEntries) ==
    [op |-> op, name |-> name, description |-> description,
     scanDepth |-> scanDepth, tokenBudget |-> tokenBudget,
     recursiveScanning |-> recursiveScanning, entries |-> entries,
     noEntries |-> noEntries]

\* the merger after an append call that left it in st
Appended(st, call) ==
    /\ bm' = st.bm
    /\ heap' = st.heap
    /\ books' = st.books
    /\ calls' = Append(calls, call)
    /\ built' = "none"
    /\ UNCHANGED <<procVars, pipeVars, contentVars>>

merger == [bm |-> bm, heap |-> heap, books |-> books]

\* bm.AppendEntry(entry)
CallAppendEntry(a) ==
    /\ Len(calls) < MaxCalls
    /\ Appended(AppendEntry(merger, a),
                Call("AppendEntry", <<>>, <<>>, 0, 0, FALSE, <<a>>, FALSE))

\* bm.AppendEntries(entries)
CallAppendEntries(entries) ==
    /\ Len(calls) < MaxCalls
    /\ Appended(AppendEntries(merger, entries),
                Call("AppendEntries", <<>>, <<>>, 0, 0, FALSE, entries,
                     FALSE))

\* bm.AppendBook(book); calls holds the book's fields as they were handed
\* over, and the entries appended for it
CallAppendBook(b) ==
    /\ Len(calls) < MaxCalls
    /\ LET st == AppendBook(merger, b) IN
       Appended(st,
                IF b = 0
                THEN Call("AppendBookNil", <<>>, <<>>, 0, 0, FALSE, <<>>,
                          FALSE)
                ELSE Call("AppendBook", books[b].Name, books[b].Description,
                          books[b].ScanDepth, books[b].TokenBudget,
                          books[b].RecursiveScanning, st.books[b].Entries,
                          Len(books[b].Entries) = 0))

\* bm.AppendProperties(scanDepth, tokenBudget, recursiveScanning)
CallAppendProperties(scanDepth, tokenBudget, recursiveScanning) ==
    /\ Len(calls) < MaxCalls
    /\ Appended(AppendProperties(merger, scanDepth, tokenBudget,
                                 recursiveScanning),
                Call("AppendProperties", <<>>, <<>>, scanDepth, tokenBudget,
                     recursiveScanning, <<>>, FALSE))

\* bm.AppendNameAndDescription(name, description)
CallAppendNameAndDescription(name, description) ==
    /\ Len(calls) < MaxCalls
    /\ Appended(AppendNameAndDescription(merger, name, description),
                Call("AppendNameAndDescription", name, description, 0, 0,
                     FALSE, <<>>, FALSE))

\* bm.AppendMapExtensions(extensions)
CallAppendMapExtensions(extensions) ==
    /\ Len(calls) < MaxCalls
    /\ Appended(AppendMapExtensions(merger, extensions),
                Call("AppendMapExtensions", <<>>, <<>>, 0, 0, FALSE, <<>>,
                     FALSE))

\* book := bm.Build()
CallBuild ==
    /\ LET r == Build(bm) IN
          /\ bm' = r.bm
          /\ built' = IF r.nil THEN "nil" ELSE "book"
    /\ UNCHANGED <<heap, books, calls, procVars, pipeVars, contentVars>>

NextMerger ==
    \/ \E a \in DOMAIN heap : CallAppendEntry(a)
    \/ \E entries \in EntryLists : CallAppendEntries(entries)
    \/ \E b \in 0..Len(books) : CallAppendBook(b)
    \/ \E args \in PropertyArgs :
          CallAppendProperties(args[1], args[2], args[3])
    \/ \E args \in NameArgs : CallAppendNameAndDescription(args[1], args[2])
    \/ \E extensions \in ExtensionArgs : CallAppendMapExtensions(extensions)
    \/ CallBuild

SpecMerger == InitMerger /\ [][NextMerger]_vars

(***************************************************************************)
(* Marshaling a Content: the caller holds a Content it built or decoded,   *)
(* and marshals it up to MaxMarshals times in a row                        *)
(***************************************************************************)
Prompts == {<<>>, <<" ">>, <<"p">>, <<"r", " ">>}
Depths == {0, 4, 5}

\* the depth_prompt map of TestSheet_MarshalDepthPromptNonDestructively
otherProp == [k \in {"other_prop"} |-> StringValue(<<"k">>)]
roleUser == [k \in {"role"} |-> StringValue(<<"u">>)]

\* the Extensions of the Contents the caller builds
CallerExtensions ==
    {NilMap,
     MapValue(roleUser),
     MapValue(Put(NoKeys, DepthPromptKey, MapValue(otherProp))),
     MapValue(Put(roleUser, DepthPromptKey, MapValue(otherProp)))}

\* the extensions objects of the JSON documents the caller decodes
DocExtensions ==
    {MapValue(roleUser),
     MapValue(Put(NoKeys, DepthPromptKey, MapValue(otherProp))),
     MapValue(Put(NoKeys, DepthPromptKey,
                  MapValue(Put(Put(NoKeys, DepthPromptPromptKey,
                                   StringValue(<<" ", "q">>)),
                               DepthPromptDepthKey, IntValue(2))))),
     MapValue(Put(roleUser, DepthPromptKey,
                  MapValue(Put(otherProp, DepthPromptPromptKey,
                               StringValue(<<" ">>))))),
     MapValue(Put(NoKeys, DepthPromptKey, StringValue(<<"t">>)))}

ContentDocs ==
    {[name |-> <<"N">>, hasExtensions |-> FALSE,
      extensions |-> JsonOf(MapValue(NoKeys))]}
    \cup {[name |-> <<"N">>, hasExtensions |-> TRUE,
           extensions |-> JsonOf(e)] : e \in DocExtensions}

InitContent ==
    /\ ProcIdle
    /\ PipeIdle
    /\ MergerIdle
    /\ \E prompt \in Prompts, depth \in Depths, e \in CallerExtensions :
          sheetContent = [Name |-> <<"N">>,
                          DepthPrompt |-> [Prompt |-> prompt,
                                           Depth |-> depth],
                          Extensions |-> e]
    /\ contentBefore = ZeroContent
    /\ jsonOut = noJson
    /\ jsonPrev = noJson
    /\ marshals = 0

\* json, err := content.MarshalJSON()
CallMarshalJSON ==
    /\ marshals < MaxMarshals
    /\ LET r == ContentMarshalJSON(sheetContent) IN
          /\ sheetContent' = r.c
          /\ jsonOut' = r.json
    /\ contentBefore' = sheetContent
    /\ jsonPrev' = jsonOut
    /\ marshals' = marshals + 1
    /\ UNCHANGED <<procVars, pipeVars, mergeVars>>

\* content := Content{}; content.UnmarshalJSON(json)
CallUnmarshalJSON(json) ==
    /\ sheetContent' = ContentUnmarshalJSON(json)
    /\ contentBefore' = ZeroContent
    /\ jsonOut' = noJson
    /\ jsonPrev' = noJson
    /\ marshals' = 0
    /\ UNCHANGED <<procVars, pipeVars, mergeVars>>

NextContent ==
    \/ CallMarshalJSON
    \/ \E json \in ContentDocs : CallUnmarshalJSON(json)
    \/ marshals > 0 /\ CallUnmarshalJSON(jsonOut)

SpecContent == InitContent /\ [][NextContent]_vars

(***************************************************************************)
(* Properties                                                              *)
(*                                                                         *)
(* The expected results are computed from gen, the chunks the stream was   *)
(* made of, not from the scanner.                                          *)
(***************************************************************************)
\* a generated chunk is a recognized payload chunk
IsCharaChunk(c) ==
    /\ c.typeCode = chunkTextTypeCode
    /\ HasPrefix(c.content, charaKeyword) \/ HasPrefix(c.content, ccv3Keyword)

RevisionOf(c) ==
    IF HasPrefix(c.content, ccv3Keyword) THEN RevisionV3 ELSE RevisionV2

PayloadOf(c) ==
    Rest(c.content,
         IF HasPrefix(c.content, ccv3Keyword) THEN Len(ccv3Keyword)
         ELSE Len(charaKeyword))

\* the positions of the recognized payload chunks of the stream
CharaIdx == {i \in 1..Len(gen.chunks) : IsCharaChunk(gen.chunks[i])}

SetMin(S) == CHOOSE x \in S : \A y \in S : x <= y
SetMax(S) == CHOOSE x \in S : \A y \in S : x >= y

\* ret is the result of the first Get() of a scanning processor on a
\* generated stream
FirstGetOfScan ==
    /\ kind = "scanning"
    /\ gen # NoCard
    /\ getCalls = 1

\* ... and the stream is well-formed (nothing cut off)
WellFormedScan == FirstGetOfScan /\ gen.cut = 0

\* the encoded length of the last generated chunk
LastChunkLen ==
    Len(Chunk(0, gen.chunks[Len(gen.chunks)].content, <<0, 0, 0, 0>>))

\* body, read as a chunk sequence from pos on, has a tEXt chunk whose
\* content starts with a recognized keyword
RECURSIVE BodyHasChara(_, _)
BodyHasChara(body, pos) ==
    IF Len(body) - pos < chunkLengthSize + chunkTypeSize THEN FALSE
    ELSE LET length == BigEndianUint32(SubSeq(body, pos + 1, pos + 4))
             typeCode == BigEndianUint32(SubSeq(body, pos + 5, pos + 8))
             content == SubSeq(body, pos + 9,
                               Min(pos + 8 + length, Len(body)))
         IN \/ /\ typeCode = chunkTextTypeCode
               /\ \/ HasPrefix(content, charaKeyword)
                  \/ HasPrefix(content, ccv3Keyword)
            \/ BodyHasChara(body, pos + 8 + length + chunkCrcSize)

\* C1: scanning a well-formed stream in First mode returns the payload and
\* the revision of the first recognized payload chunk in stream order,
\* whatever follows it and whatever the payload lengths (empty included).
C1_FirstReturnsFirstChunk ==
    (WellFormedScan /\ ret.mode = First /\ CharaIdx # {}) =>
        LET c == gen.chunks[SetMin(CharaIdx)] IN
        /\ ret.err = "nil"
        /\ ret.card.RawCharaData = PayloadOf(c)
        /\ ret.card.Revision = RevisionOf(c)

\* C2: when the last chunk header declares more bytes than remain (content
\* plus CRC cut short) and the scan parses that chunk, Get() returns an
\* error and no card.
C2_TruncatedChunkIsError ==
    (/\ FirstGetOfScan
     /\ ret.mode.deepScan
     /\ Len(gen.chunks) > 0
     /\ gen.cut > 0
     /\ gen.cut <= LastChunkLen - (chunkLengthSize + chunkTypeSize)) =>
        /\ ret.err # "nil"
        /\ ret.card = NoCard

\* C3 as stated: after every successful Get(), in any scan mode, Body holds
\* no tEXt chunk whose content starts with a recognized keyword.
C3_BodyNeverHasCharaChunk ==
    (getCalls > 0 /\ kind = "scanning" /\ ret.err = "nil") =>
        ~BodyHasChara(ret.card.Body, 0)

\* C3 amended: after every successful Get() in a deep-scan mode, and in
\* First mode when no non-empty payload was accepted, Body holds no tEXt
\* chunk whose content starts with a recognized keyword.
C3_BodyHasNoCharaChunkWhenFullyScanned ==
    (/\ getCalls > 0
     /\ kind = "scanning"
     /\ ret.err = "nil"
     /\ ret.mode.deepScan \/ Len(ret.card.RawCharaData) = 0) =>
        ~BodyHasChara(ret.card.Body, 0)

C3_Witness ==
    /\ WellFormedScan
    /\ ret.mode.deepScan
    /\ ret.err = "nil"
    /\ Len(gen.chunks) = 2
    /\ Cardinality(CharaIdx) = 1
    /\ Len(ret.card.RawCharaData) > 0
    /\ Len(ret.card.Body) > 0

\* C4: in LastVersion mode on a well-formed stream, the result is the
\* payload of a chunk of the highest revision present, and among the chunks
\* of that revision the one encountered last.
C4_LastVersionSelectsHighestLast ==
    (WellFormedScan /\ ret.mode = LastVersion /\ CharaIdx # {}) =>
        LET top == SetMax({RevisionOf(gen.chunks[i]) : i \in CharaIdx})
            last == SetMax({i \in CharaIdx : RevisionOf(gen.chunks[i]) = top})
        IN /\ ret.err = "nil"
           /\ ret.card.Revision = top
           /\ ret.card.RawCharaData = PayloadOf(gen.chunks[last])

C4_Witness ==
    /\ WellFormedScan
    /\ ret.mode = LastVersion
    /\ Len(gen.chunks) = 2
    /\ IsCharaChunk(gen.chunks[1])
    /\ IsCharaChunk(gen.chunks[2])
    /\ RevisionOf(gen.chunks[1]) = RevisionV3
    /\ RevisionOf(gen.chunks[2]) = RevisionV2
    /\ Len(PayloadOf(gen.chunks[2])) > Len(PayloadOf(gen.chunks[1]))
    /\ ret.card.Revision = RevisionV3

\* C5: in LastLongest mode on a well-formed stream, the result is the chunk
\* with the longest keyword-stripped payload, whatever its revision and
\* position, and among the longest ones the one encountered last.
C5_LastLongestSelectsLongestLast ==
    (WellFormedScan /\ ret.mode = LastLongest /\ CharaIdx # {}) =>
        LET top == SetMax({Len(PayloadOf(gen.chunks[i])) : i \in CharaIdx})
            last == SetMax({i \in CharaIdx :
                              Len(PayloadOf(gen.chunks[i])) = top})
        IN /\ ret.err = "nil"
           /\ ret.card.Revision = RevisionOf(gen.chunks[last])
           /\ ret.card.RawCharaData = PayloadOf(gen.chunks[last])

C5_Witness ==
    /\ WellFormedScan
    /\ ret.mode = LastLongest
    /\ Len(gen.chunks) = 2
    /\ IsCharaChunk(gen.chunks[1])
    /\ IsCharaChunk(gen.chunks[2])
    /\ Len(PayloadOf(gen.chunks[1])) = 1
    /\ Len(PayloadOf(gen.chunks[2])) = 1
    /\ PayloadOf(gen.chunks[1]) # PayloadOf(gen.chunks[2])
    /\ ret.card.RawCharaData = PayloadOf(gen.chunks[2])

\* C6: a card with non-empty RawCharaData and Revision V2 or V3, its image
\* taken from an earlier scan, serialized with ToBytes and scanned in First
\* mode, comes back with the same RawCharaData and the same Revision.
C6_RoundTripIdentity ==
    (/\ injected # NoCard
     /\ getCalls = 1
     /\ ret.mode = First
     /\ Len(injected.RawCharaData) > 0
     /\ injected.Revision \in {RevisionV2, RevisionV3}) =>
        /\ kind = "scanning"
        /\ ret.err = "nil"
        /\ ret.card.RawCharaData = injected.RawCharaData
        /\ ret.card.Revision = injected.Revision

C6_Witness ==
    /\ injected # NoCard
    /\ getCalls = 1
    /\ ret.mode = First
    /\ injected.Revision = RevisionV3
    /\ Len(injected.RawCharaData) = 2
    /\ BodyHasChara(injected.Body, 0)
    /\ ret.err = "nil"
    /\ ret.card.RawCharaData = injected.RawCharaData

\* C7: when the stream ends partway through a chunk header (1 to 7 bytes
\* where a length and a type code are expected) and the scan reaches that
\* header, Get() returns an error.
C7_PartialHeaderIsError ==
    (/\ FirstGetOfScan
     /\ ret.mode.deepScan
     /\ Len(gen.chunks) > 0
     /\ gen.cut < LastChunkLen
     /\ LastChunkLen - gen.cut < chunkLengthSize + chunkTypeSize) =>
        ret.err # "nil"

\* C8: the byte source a processor owns is closed once Get() has returned,
\* for the scanning and for the converter processor.
C8_SourceClosedAfterGet ==
    (getCalls > 0 /\ hasSource) => closed

\* C10: once Get() has returned a non-nil error, Err() is non-nil too.
C10_ErrReportsGetError ==
    (getCalls > 0 /\ ret.err # "nil") => Err # "nil"

\* C9: ToCharacter on a RawJsonCard with empty RawJsonData and a held
\* Revision V2 or V3 returns, without error, a default Sheet with the
\* Revision, Spec and Version of the held Revision.
C9_DefaultSheetHasHeldRevision ==
    (/\ lastOp.op = "ToCharacter"
     /\ Len(lastOp.arg.RawJsonData) = 0
     /\ lastOp.arg.Revision \in DOMAIN Stamps) =>
        /\ perr = "nil"
        /\ cc # NoCard
        /\ cc.Sheet # NoCard
        /\ cc.Sheet.Revision = lastOp.arg.Revision
        /\ cc.Sheet.Spec = Stamps[lastOp.arg.Revision].Spec
        /\ cc.Sheet.Version = Stamps[lastOp.arg.Revision].Version

C12_NoPayloadYieldsEmptyCard ==
    /\ (WellFormedScan /\ CharaIdx = {}) =>
          /\ ret.err = "nil"
          /\ Len(ret.card.RawCharaData) = 0
          /\ ret.card.Revision = 0
    /\ (kind = "converter" /\ hasSource /\ canDecode /\ getCalls > 0) =>
          /\ ret.err = "nil"
          /\ Len(ret.card.RawCharaData) = 0
          /\ ret.card.Revision = 0

C12_Witness ==
    /\ WellFormedScan
    /\ CharaIdx = {}
    /\ ret.mode = LastVersion
    /\ Len(gen.chunks) = 2
    /\ \E i \in 1..2 : /\ gen.chunks[i].typeCode = chunkTextTypeCode
                       /\ Len(gen.chunks[i].content) > 0
    /\ ret.err = "nil"
    /\ ret.card.Revision = 0

\* C13: a card with empty RawCharaData serializes to exactly its Header
\* followed by its Body, whatever its Revision.
C13_EmptyPayloadWritesNoChunk ==
    (/\ injected # NoCard
     /\ kind # "none"
     /\ Len(injected.RawCharaData) = 0) =>
        input = injected.Header \o injected.Body

C13_Witness ==
    /\ injected # NoCard
    /\ kind # "none"
    /\ Len(injected.RawCharaData) = 0
    /\ injected.Revision = RevisionV3
    /\ Len(injected.Body) > 0
    /\ input = injected.Header \o injected.Body

\* C14: ToBytes of a card with non-empty RawCharaData writes its Header, one
\* chunk, and its Body unchanged; the chunk is the big-endian length
\* len(keyword) + len(RawCharaData), the tEXt type code, the keyword (the
\* card's revision's, V2's when it has none) followed by RawCharaData, and
\* the CRC32 (IEEE) of type code, keyword and RawCharaData, big-endian.
C14_InjectedChunkLayout ==
    [][(/\ injected # NoCard
        /\ kind = "none"
        /\ kind' # "none"
        /\ Len(injected.RawCharaData) > 0) =>
           LET keyword == IF injected.Revision = RevisionV3 THEN ccv3Keyword
                          ELSE charaKeyword
               n == Len(keyword) + Len(injected.RawCharaData)
               h == Len(injected.Header)
               chunkLen == chunkLengthSize + chunkTypeSize + n + chunkCrcSize
           IN /\ Len(input') = h + chunkLen + Len(injected.Body)
              /\ SubSeq(input', 1, h) = injected.Header
              /\ BigEndianUint32(SubSeq(input', h + 1, h + 4)) = n
              /\ BigEndianUint32(SubSeq(input', h + 5, h + 8))
                     = chunkTextTypeCode
              /\ SubSeq(input', h + 9, h + 8 + n)
                     = keyword \o injected.RawCharaData
              /\ SubSeq(input', h + 9 + n, h + chunkLen)
                     = Crc32IEEE(SubSeq(input', h + 5, h + 8 + n))
              /\ Rest(input', h + chunkLen) = injected.Body]_vars

C14_Witness ==
    /\ injected # NoCard
    /\ kind # "none"
    /\ injected.Revision = RevisionV3
    /\ injected.RawCharaData = <<66, 67>>
    /\ Len(injected.Body) > 0
    /\ Len(input) = Len(injected.Header) + 19 + Len(injected.Body)
    /\ SubSeq(input, Len(injected.Header) + 9, Len(injected.Header) + 15)
           = ccv3Keyword \o <<66, 67>>

\* C15: a converter processor calls io.ReadAll on its source at most once
\* over any sequence of ImageSize() and Get() calls; once a decode attempt
\* has succeeded or failed (or the processor was made with an error), no
\* call reads the source or changes the cached image or error, every Get()
\* returns that image (with no payload) or that error, and every
\* ImageSize() the size of that image or (-1, -1).
C15_DecodedAtMostOnce ==
    [][kind = "converter" =>
         /\ reads' <= 1
         /\ (decoded \/ err # "nil") =>
               /\ reads' = reads
               /\ reader' = reader
               /\ decoded' = decoded
               /\ pngData' = pngData
               /\ err' = err
               /\ getCalls' # getCalls =>
                     /\ ret'.err = err
                     /\ err = "nil" =>
                           ret'.card = RawCard(pngData.Header, pngData.Body,
                                               <<>>, 0)
               /\ ImageSizeResult' = ImageSizeResult]_vars

C15_Witness ==
    /\ kind = "converter"
    /\ decoded
    /\ reads = 1
    /\ getCalls = 2
    /\ ret.err = "nil"
    /\ ret.card.Body = pngData.Body
    /\ ImageSizeResult = <<4, 4>>

\* the positions of the URLs for which the client reports no error
OkUrls == {i \in 1..Len(fetch.urls) : fetch.urls[i].err = "nil"}

\* C16: FromURL requests the URLs in list order, each at most once and none
\* after one that succeeded; the processor it returns is the one FromImage
\* makes of the first successful response, with a nil Err() until it decodes
\* that response, after requesting exactly the URLs up to that one; when
\* every URL failed, all were requested and Err() is the error of the last
\* one.
C16_FromURLFirstSuccessInOrder ==
    fetch # NoCard =>
        LET log == fetch.accessLog
            urls == fetch.urls
        IN /\ \A k \in 1..Len(log) : log[k] = k
           /\ \A k \in 1..(Len(log) - 1) : urls[log[k]].err # "nil"
           /\ kind # "none" =>
                 IF OkUrls # {}
                 THEN LET first == SetMin(OkUrls)
                          p == FromImage(urls[first].body)
                      IN /\ Len(log) = first
                         /\ input = urls[first].body
                         /\ kind = p.kind
                         /\ header = p.header
                         /\ reader.data = p.reader.data
                         /\ hasSource
                         /\ reads = 0 => Err = "nil"
                 ELSE /\ Len(log) = Len(urls)
                      /\ kind = "converter"
                      /\ ~hasSource
                      /\ Len(urls) > 0 => Err = urls[Len(urls)].err

C16_Witness ==
    /\ fetch # NoCard
    /\ kind = "scanning"
    /\ Len(fetch.urls) = 3
    /\ fetch.urls[1].err = "status404"
    /\ fetch.urls[2].err = "nil"
    /\ fetch.urls[3].err = "nil"
    /\ fetch.urls[2].body # fetch.urls[3].body
    /\ fetch.accessLog = <<1, 2>>
    /\ input = fetch.urls[2].body

\* C17: on an empty payload (empty RawCharaData, empty RawJsonData, nil
\* Sheet) no transform returns an error: RawCard.ToRawJson returns empty
\* RawJsonData, RawJsonCard.ToCharacter and RawCard.Decode a card with a
\* Sheet, CharacterCard.ToRawJson empty RawJsonData, RawJsonCard.ToRaw and
\* CharacterCard.Encode empty RawCharaData.
C17_EmptyPayloadNeverFails ==
    LET op == lastOp.op
        arg == lastOp.arg
    IN /\ (op = "ToRawJson" /\ Len(arg.RawCharaData) = 0) =>
             /\ perr = "nil"
             /\ rjc # NoCard
             /\ Len(rjc.RawJsonData) = 0
       /\ (op = "ToCharacter" /\ Len(arg.RawJsonData) = 0) =>
             /\ perr = "nil"
             /\ cc # NoCard
             /\ cc.Sheet # NoCard
       /\ (op = "CharacterToRawJson" /\ arg.Sheet = NoCard) =>
             /\ perr = "nil"
             /\ rjc # NoCard
             /\ Len(rjc.RawJsonData) = 0
       /\ (op = "ToRaw" /\ Len(arg.RawJsonData) = 0) =>
             /\ perr = "nil"
             /\ rc # NoCard
             /\ Len(rc.RawCharaData) = 0
       /\ (op = "Decode" /\ Len(arg.RawCharaData) = 0) =>
             /\ perr = "nil"
             /\ cc # NoCard
             /\ cc.Sheet # NoCard
       /\ (op = "Encode" /\ arg.Sheet = NoCard) =>
             /\ perr = "nil"
             /\ rc # NoCard
             /\ Len(rc.RawCharaData) = 0

C17_Witness ==
    /\ lastOp.op = "Decode"
    /\ Len(lastOp.arg.RawCharaData) = 0
    /\ lastOp.arg.Revision = RevisionV3
    /\ perr = "nil"
    /\ cc # NoCard
    /\ cc.Sheet # NoCard
    /\ cc.Sheet.Spec = SpecV2

\* the bytes of a generated chunk in the stream
ChunkBytes(c) == Chunk(c.typeCode, c.content, ChunkCrc(c))

\* the bytes of the chunks i..j of cs whose type is not tEXt, in order
RECURSIVE NonTextBytes(_, _, _)
NonTextBytes(cs, i, j) ==
    IF i > j THEN <<>>
    ELSE (IF cs[i].typeCode = chunkTextTypeCode THEN <<>>
          ELSE ChunkBytes(cs[i]))
             \o NonTextBytes(cs, i + 1, j)

\* the offset in the stream at which the k-th generated chunk ends
ChunkEnd(k) == fullIhdrSize + Len(EncodeChunks(SubSeq(gen.chunks, 1, k), 1))

\* the positions of the recognized chunks with a non-empty payload
PayloadIdx == {i \in CharaIdx : Len(PayloadOf(gen.chunks[i])) > 0}

\* C18: in First mode, when the stream holds the whole of its first
\* recognized chunk with a non-empty payload, Get() succeeds with that
\* payload, and Body is the non-tEXt chunks before that chunk, in order,
\* followed by every byte of the stream after that chunk's CRC, whatever
\* those bytes are.
C18_FirstCopiesTailVerbatim ==
    (/\ FirstGetOfScan
     /\ ret.mode = First
     /\ PayloadIdx # {}
     /\ ChunkEnd(SetMin(PayloadIdx)) <= Len(input)) =>
        LET k == SetMin(PayloadIdx) IN
        /\ ret.err = "nil"
        /\ ret.card.RawCharaData = PayloadOf(gen.chunks[k])
        /\ ret.card.Body = NonTextBytes(gen.chunks, 1, k - 1)
                               \o Rest(input, ChunkEnd(k))

C18_Witness ==
    /\ FirstGetOfScan
    /\ ret.mode = First
    /\ Len(gen.chunks) = 2
    /\ 1 \in PayloadIdx
    /\ gen.chunks[2].typeCode = chunkTextTypeCode
    /\ gen.cut > 0
    /\ ret.err = "nil"
    /\ Len(ret.card.Body) > 0
    /\ ret.card.Body = Rest(input, ChunkEnd(1))

\* C19: in the deep-scan modes, the first Get() on a well-formed stream
\* succeeds and Body is the concatenation, in stream order, of the chunks
\* whose type is not tEXt, each with its length, type, content and CRC as
\* they are in the stream (valid CRC or not); no tEXt chunk is in Body.
C19_DeepScanBodyIsNonTextChunks ==
    (WellFormedScan /\ ret.mode.deepScan) =>
        /\ ret.err = "nil"
        /\ ret.card.Body = NonTextBytes(gen.chunks, 1, Len(gen.chunks))

C19_Witness ==
    /\ WellFormedScan
    /\ ret.mode = LastLongest
    /\ Len(gen.chunks) = 2
    /\ gen.chunks[1].typeCode = chunkTextTypeCode
    /\ ~IsCharaChunk(gen.chunks[1])
    /\ Len(gen.chunks[1].content) > 0
    /\ gen.chunks[2].typeCode = idatTypeCode
    /\ ret.err = "nil"
    /\ ret.card.Body = ChunkBytes(gen.chunks[2])

\* C20: in every card that Get() returns, Revision is zero if and only if
\* RawCharaData is empty, also when a recognized chunk is its keyword alone.
C20_RevisionZeroIffNoPayload ==
    (getCalls > 0 /\ ret.err = "nil") =>
        (ret.card.Revision = 0 <=> Len(ret.card.RawCharaData) = 0)

\* C21: the processor FromImage returns for an input is a scanning
\* processor exactly when the input holds at least fullIhdrSize (33) bytes
\* and its first headerSize (8) bytes are the PNG signature; every other
\* input (shorter, or with another signature) gets the converter.
C21_ScanningIffFullPngHeader ==
    hasSource =>
        /\ kind \in {"scanning", "converter"}
        /\ kind = "scanning" <=>
               (Len(input) >= fullIhdrSize /\ HasPrefix(input, pngHeader))

\* a signature-bearing input too short to probe goes to the converter
C21_Witness ==
    /\ hasSource
    /\ kind = "converter"
    /\ HasPrefix(input, pngHeader)
    /\ Len(input) > headerSize
    /\ Len(input) < fullIhdrSize

\* the generated stream holds no tEXt chunk
NoTextChunk ==
    \A i \in 1..Len(gen.chunks) : gen.chunks[i].typeCode # chunkTextTypeCode

\* C25: for a well-formed PNG stream without any tEXt chunk, the first
\* Get(), in whatever scan mode, succeeds and ToBytes() of the card it
\* returns is the input, byte for byte.
C25_NoTextRoundTrip ==
    (WellFormedScan /\ NoTextChunk) =>
        /\ ret.err = "nil"
        /\ ToImage(ret.card) = input

C25_Witness ==
    /\ WellFormedScan
    /\ NoTextChunk
    /\ Len(gen.chunks) = 2
    /\ gen.chunks[2].typeCode = chunkIENDTypeCode
    /\ ret.mode = LastVersion
    /\ ret.err = "nil"
    /\ ToImage(ret.card) = input

\* C26: Get() is repeatable: a Get() that follows an earlier Get() on the
\* same processor, in the same scan mode, returns the card the earlier call
\* returned (same Header, Body, RawCharaData and Revision) or the same
\* error, for the scanning processor as for the converter.
C26_GetRepeatable ==
    [][(/\ getCalls >= 1
        /\ getCalls' = getCalls + 1
        /\ scanMode = ret.mode) =>
           (ret'.card = ret.card /\ ret'.err = ret.err)]_vars

\* C27: Close() completes without panicking on every processor a
\* constructor returns, also on one constructed in an error state and on
\* one whose Get() has run.  A step that is no Get() and on which decode()
\* cannot meet a nil reader panics only if it is a Close().
C27_CloseNeverPanics ==
    [][(/\ ~panicked
        /\ ~nilReaderDecode
        /\ getCalls' = getCalls) => ~panicked']_vars

\* C28: when FromImage hands an input to the converter, the bytes the
\* converter has read from its reader once it decodes are the input bytes,
\* each once and in order, also for an input shorter than the probe.
C28_ConverterReadsInput ==
    (kind = "converter" /\ hasSource /\ reads >= 1) =>
        /\ reader.pos = Len(reader.data)
        /\ reader.data = input

\* the (Revision, Spec, Version) triple of a Sheet is a defined stamp
HasDefinedStamp(sheet) ==
    \E r \in DOMAIN Stamps :
        /\ sheet.Revision = r
        /\ sheet.Spec = Stamps[r].Spec
        /\ sheet.Version = Stamps[r].Version

\* C30: the Sheet of the card a successful ToCharacter or Decode returns
\* carries the Revision, Spec and Version of one of the two defined stamps,
\* whatever Revision the card it was made from held.
C30_SheetCarriesDefinedStamp ==
    (lastOp.op \in {"ToCharacter", "Decode"} /\ perr = "nil") =>
        /\ cc # NoCard
        /\ cc.Sheet # NoCard
        /\ HasDefinedStamp(cc.Sheet)

\* every call made on the merger is one of ops
OnlyCalls(ops) == \A i \in 1..Len(calls) : calls[i].op \in ops

\* the entries handed to the merger by the calls cs, in append order
RECURSIVE AppendedEntries(_)
AppendedEntries(cs) ==
    IF Len(cs) = 0 THEN <<>>
    ELSE Head(cs).entries \o AppendedEntries(Tail(cs))

\* C22: after any sequence of AppendEntry, AppendEntries and AppendBook
\* calls on a new BookMerger, the merged book holds the appended entries in
\* append order, the i-th of them (from 0) has the integer ID i, and
\* entryIndex is the number of entries appended.
C22_EntryIdIsAppendPosition ==
    OnlyCalls({"AppendEntry", "AppendEntries", "AppendBook",
               "AppendBookNil"}) =>
        /\ bm.book.Entries = AppendedEntries(calls)
        /\ bm.entryIndex = Len(AppendedEntries(calls))
        /\ \A i \in 1..Len(bm.book.Entries) :
               heap[bm.book.Entries[i]].ID = <<i - 1>>

\* the calls that hand a name and a description to the merger
NamingCalls(cs) ==
    SelectSeq(cs, LAMBDA c : c.op \in {"AppendNameAndDescription",
                                       "AppendBook"})

\* the non-blank strings of tokens, trimmed, joined by sep
RECURSIVE JoinNonBlank(_, _)
JoinNonBlank(tokens, sep) ==
    IF Len(tokens) = 0 THEN <<>>
    ELSE LET rest == JoinNonBlank(Tail(tokens), sep) IN
         IF IsBlank(Head(tokens)) THEN rest
         ELSE IF Len(rest) = 0 THEN TrimSpace(Head(tokens))
         ELSE TrimSpace(Head(tokens)) \o sep \o rest

\* the names, and the descriptions, handed over by the calls cs
NamesOf(cs) == [i \in 1..Len(cs) |-> cs[i].name]
DescriptionsOf(cs) == [i \in 1..Len(cs) |-> cs[i].description]

\* C23 as stated: after any sequence of AppendNameAndDescription and
\* AppendBook calls and a Build() that returns a book, Name is the trimmed
\* non-blank names joined by " -- " in append order and Description the
\* trimmed non-blank descriptions joined by the description separator.
C23_EveryDescriptionJoined ==
    (/\ OnlyCalls({"AppendNameAndDescription", "AppendBook",
                   "AppendBookNil"})
     /\ built = "book") =>
        /\ bm.book.Name =
               JoinNonBlank(NamesOf(NamingCalls(calls)), BookNameSeparator)
        /\ bm.book.Description =
               JoinNonBlank(DescriptionsOf(NamingCalls(calls)),
                            BookDescriptionSeparator)

\* C23: after any sequence of append calls and a Build() that returns a
\* book, Name is the trimmed non-blank names joined by " -- " in append
\* order, and Description is the trimmed non-blank descriptions, those of
\* the books appended without entries left out, joined by the description
\* separator; a blank name or description adds no text and no separator.
C23_NameAndDescriptionJoined ==
    built = "book" =>
        /\ bm.book.Name =
               JoinNonBlank(NamesOf(NamingCalls(calls)), BookNameSeparator)
        /\ bm.book.Description =
               JoinNonBlank(
                   DescriptionsOf(SelectSeq(NamingCalls(calls),
                                            LAMBDA c : ~c.noEntries)),
                   BookDescriptionSeparator)

\* a book without entries and with a description, a blank name before the
\* last name, and two descriptions joined
C23_Witness ==
    /\ built = "book"
    /\ Len(calls) = 3
    /\ calls[1].op = "AppendBook"
    /\ calls[1].noEntries
    /\ ~IsBlank(calls[1].description)
    /\ IsBlank(calls[2].name)
    /\ ~IsBlank(calls[2].description)
    /\ ~IsBlank(calls[3].name)
    /\ ~IsBlank(calls[3].description)
    /\ bm.book.Name = calls[1].name \o BookNameSeparator
                          \o TrimSpace(calls[3].name)
    /\ bm.book.Description =
           TrimSpace(calls[2].description) \o BookDescriptionSeparator
               \o TrimSpace(calls[3].description)

\* the calls that hand properties to the merger
PropertyCalls ==
    SelectSeq(calls, LAMBDA c : c.op \in {"AppendProperties", "AppendBook"})

\* C24: after any sequence of append calls, the merged ScanDepth and
\* TokenBudget are each the maximum of the new merger's value and the values
\* appended by AppendProperties and AppendBook, and RecursiveScanning is
\* true exactly when it was at the start or one appended value was true.
C24_PropertiesAreMaxima ==
    LET cs == PropertyCalls
        first == NewBookMerger.book
    IN /\ bm.book.ScanDepth =
              SetMax({first.ScanDepth}
                         \cup {cs[i].scanDepth : i \in 1..Len(cs)})
       /\ bm.book.TokenBudget =
              SetMax({first.TokenBudget}
                         \cup {cs[i].tokenBudget : i \in 1..Len(cs)})
       /\ bm.book.RecursiveScanning <=>
              (\/ first.RecursiveScanning
               \/ \E i \in 1..Len(cs) : cs[i].recursiveScanning)

\* lower values and a false flag appended after higher ones and a true one
C24_Witness ==
    /\ Len(calls) = 2
    /\ calls[1].op = "AppendBook"
    /\ calls[2].op = "AppendProperties"
    /\ calls[1].recursiveScanning
    /\ ~calls[2].recursiveScanning
    /\ calls[2].scanDepth < calls[1].scanDepth
    /\ calls[2].tokenBudget < calls[1].tokenBudget
    /\ bm.book.ScanDepth = calls[1].scanDepth
    /\ bm.book.TokenBudget = calls[1].tokenBudget
    /\ bm.book.RecursiveScanning

\* C29: Content.MarshalJSON leaves the Content as it was: Extensions holds
\* the same keys and values after the call as before it and DepthPrompt is
\* untouched, and a second MarshalJSON right after the first returns the
\* same JSON, also when DepthPrompt.Prompt is blank and Extensions holds a
\* depth_prompt map with other keys.
C29_MarshalLeavesContentUnchanged ==
    /\ marshals >= 1 =>
           /\ sheetContent.Extensions.m = contentBefore.Extensions.m
           /\ sheetContent.DepthPrompt = contentBefore.DepthPrompt
    /\ marshals >= 2 => jsonOut = jsonPrev

====
